---- MODULE Spec2Model ----
\* Verification model of the CopyKAT dashboard backend:
\*   backend/api/r_executor.py  (run_copykat_analysis, build_r_command,
\*   find_output_directory, locate_output_files, extract_summary_statistics)
\*
\* Python values are modelled as follows.
\*   - a str that the code only passes around       : a TLA+ string
\*   - a dict value of params                        : a tagged record,
\*       [str |-> s], [int |-> n], [float |-> h] (h hundredths), [bool |-> b]
\*   - an Optional[str] (a message built by an
\*     f-string, a path)                             : the tuple of its fragments
\*   - None                                          : the empty tuple
\*   - a dict with string keys                       : a function on its key set
EXTENDS Integers, Sequences, FiniteSets, TLC

VARIABLES
    \* ---- one call of run_copykat_analysis ----
    params,        \* the params dict passed by the caller
    pc,            \* position of the call in the function body
    command,       \* local `command` (None before it is built)
    proc,          \* the child process: state, returncode, stderr
    clock,         \* wall clock read by datetime.now(), in minutes
    start_time,    \* local `start_time`
    runtime,       \* local `runtime`
    fs,            \* filesystem at params['output_dir']: [base_exists, entries]
    output_dir,    \* local `output_dir`
    files,         \* local `files`
    summary,       \* local `summary`
    result,        \* the record returned (None while the call is running)
    calls,         \* how often each external operation was invoked by the call
    \* ---- repeated calls of build_r_command by one caller ----
    bParams,       \* the params dict the caller holds
    bScript,       \* the script path the caller passes
    bPc,           \* "ready" | "built"
    bCalls,        \* one record per finished call: script, params, command
    \* ---- the result locator applied to a directory ----
    lIn,           \* the arguments: dir (the filesystem), base_dir, sample_name
    lOut,          \* the function applied and the value it returned
    \* ---- the summarizers applied to an output directory ----
    sIn,           \* the output directory: its files and their contents
    sOut,          \* the function applied and the value it returned or raised
    \* ---- the parameter validators applied to parameters ----
    vIn,           \* the params dictionary
    vOut,          \* the validator applied and what it returned or showed
    \* ---- monitor_analysis_progress on a child process ----
    mProc,         \* the child process: running, or exited with its return code
    mLog,          \* the log_file argument and the file behind it
    mPc,           \* position of the generator: in the loop or finished
    current_stage, \* index of the next checkpoint
    events,        \* the events yielded so far
    ticks,         \* iterations of the polling loop so far
    \* ---- extract_chromosome_summary applied to a segments table ----
    hIn,           \* the CNA segments table
    hOut,          \* the chromosome summary returned
    \* ---- save_config and load_config on one configuration file ----
    cIn,           \* the configuration dictionary
    cFile,         \* the configuration file on disk
    cOut,          \* what load_config returned
    \* ---- two run_copykat_analysis calls sharing one output_dir ----
    tCalls,        \* the two run_copykat_analysis calls: sample name, position, engine, result
    tFs,           \* the output directory the two calls share
    tClock         \* the clock of the modification times

runVars == <<params, pc, command, proc, clock, start_time, runtime, fs,
             output_dir, files, summary, result, calls>>
buildVars == <<bParams, bScript, bPc, bCalls>>
locateVars == <<lIn, lOut>>
summaryVars == <<sIn, sOut>>
validateVars == <<vIn, vOut>>
monitorVars == <<mProc, mLog, mPc, current_stage, events, ticks>>
chromVars == <<hIn, hOut>>
configVars == <<cIn, cFile, cOut>>
twoVars == <<tCalls, tFs, tClock>>
vars == <<runVars, buildVars, locateVars, summaryVars, validateVars, monitorVars, chromVars, configVars, twoVars>>
\* what a step of one part of the model leaves alone
nonRunVars == <<buildVars, locateVars, summaryVars, validateVars, monitorVars, chromVars, configVars, twoVars>>
nonBuildVars == <<runVars, locateVars, summaryVars, validateVars, monitorVars, chromVars, configVars, twoVars>>
nonLocateVars == <<runVars, buildVars, summaryVars, validateVars, monitorVars, chromVars, configVars, twoVars>>
nonSummaryVars == <<runVars, buildVars, locateVars, validateVars, monitorVars, chromVars, configVars, twoVars>>
nonValidateVars == <<runVars, buildVars, locateVars, summaryVars, monitorVars, chromVars, configVars, twoVars>>
nonMonitorVars == <<runVars, buildVars, locateVars, summaryVars, validateVars, chromVars, configVars, twoVars>>
nonChromVars == <<runVars, buildVars, locateVars, summaryVars, validateVars, monitorVars, configVars, twoVars>>
nonConfigVars == <<runVars, buildVars, locateVars, summaryVars, validateVars, monitorVars, chromVars, twoVars>>
nonTwoVars == <<runVars, buildVars, locateVars, summaryVars, validateVars, monitorVars, chromVars, configVars>>

None == <<>>

\* ------------------------------------------------------------------ bounds
MaxExit == 2        \* exit codes 0..MaxExit
MaxDuration == 1    \* minutes the engine may run
MaxCalls == 2       \* calls of build_r_command by one caller
MaxMtime == 1       \* modification times 0..MaxMtime of directory entries
MaxRows == 3        \* rows of a predictions table
MaxNameLen == 2     \* characters of a short sample name
MaxTicks == 8       \* iterations of the polling loop of the monitor
MaxLogLen == 2      \* lines of a short log file
MaxSegments == 3    \* rows of a CNA segments table
MaxConfigInt == 500 \* largest integer of a configuration document
MaxWhole == 1       \* largest integer part of a float of a configuration document

\* ------------------------------------------------------------------ values
StrV(s) == [str |-> s]
IntV(n) == [int |-> n]
FloatV(h) == [float |-> h]
BoolV(b) == [bool |-> b]

\* float.__repr__ for a non-negative float with at most two decimals
PyFloatStr(h) ==
    LET whole == ToString(h \div 100)
        frac == h % 100
    IN  IF frac = 0 THEN whole \o ".0"
        ELSE IF frac % 10 = 0 THEN whole \o "." \o ToString(frac \div 10)
        ELSE IF frac < 10 THEN whole \o ".0" \o ToString(frac)
        ELSE whole \o "." \o ToString(frac)

\* str(x)
PyStr(v) ==
    IF "str" \in DOMAIN v THEN v.str
    ELSE IF "int" \in DOMAIN v THEN ToString(v.int)
    ELSE IF "float" \in DOMAIN v THEN PyFloatStr(v.float)
    ELSE IF v.bool THEN "True" ELSE "False"

\* list.extend([flag, value])
Extend(cmd, flag, value) == cmd \o <<flag, value>>

\* mutant: `params.get(key, 5)` emits the flag whether or not the key is present
ExtendIfPresent_Default(cmd, p, key, flag) ==
    Extend(cmd, flag, IF key \in DOMAIN p THEN PyStr(p[key]) ELSE "5")

\* `if key in params: command.extend([flag, str(params[key])])`
ExtendIfPresent(cmd, p, key, flag) ==
    IF key \in DOMAIN p THEN Extend(cmd, flag, PyStr(p[key])) ELSE cmd

\* `if key in params: command.extend([flag, params[key]])` (no str())
ExtendRawIfPresent(cmd, p, key, flag) ==
    IF key \in DOMAIN p THEN Extend(cmd, flag, p[key].str) ELSE cmd

\* ------------------------------------------------------- build_r_command
RequiredArgs(script_path, p) ==
    <<"Rscript", script_path,
      "--input", p["input_file"].str,
      "--output", p["output_dir"].str,
      "--name", p["sample_name"].str,
      "--genome", p["genome"].str>>

\* mutant: the --cores block is placed before the --win_size block
OptionalArgs_Swapped(cmd, p) ==
    LET c1 == ExtendIfPresent(cmd, p, "ngene_chr", "--ngene_chr")
        c2 == ExtendIfPresent(c1, p, "n_cores", "--cores")
        c3 == ExtendIfPresent(c2, p, "win_size", "--win_size")
        c4 == ExtendIfPresent(c3, p, "LOW_DR", "--low_dr")
        c5 == ExtendIfPresent(c4, p, "UP_DR", "--up_dr")
        c6 == ExtendIfPresent(c5, p, "KS_cut", "--ks_cut")
        c7 == ExtendRawIfPresent(c6, p, "distance", "--distance")
        c8 == ExtendRawIfPresent(c7, p, "cell_line", "--cell_line")
    IN  c8

OptionalArgs(cmd, p) ==
    LET c1 == ExtendIfPresent(cmd, p, "ngene_chr", "--ngene_chr")
        c2 == ExtendIfPresent(c1, p, "win_size", "--win_size")
        c3 == ExtendIfPresent(c2, p, "n_cores", "--cores")
        c4 == ExtendIfPresent(c3, p, "LOW_DR", "--low_dr")
        c5 == ExtendIfPresent(c4, p, "UP_DR", "--up_dr")
        c6 == ExtendIfPresent(c5, p, "KS_cut", "--ks_cut")
        c7 == ExtendRawIfPresent(c6, p, "distance", "--distance")
        c8 == ExtendRawIfPresent(c7, p, "cell_line", "--cell_line")
    IN  c8

\* mutant: `command` is a list shared by all calls (a mutable default
\* argument), so each call appends to what the earlier calls left in it
build_r_command_Shared(script_path, p) ==
    OptionalArgs((IF bCalls = <<>> THEN <<>> ELSE bCalls[Len(bCalls)].command)
                    \o RequiredArgs(script_path, p), p)

build_r_command(script_path, p) == OptionalArgs(RequiredArgs(script_path, p), p)

\* --------------------------------------------------- inputs of the model
RequiredKeys == {"input_file", "sample_name", "output_dir", "genome"}
BuilderOptionalKeys ==
    {"ngene_chr", "win_size", "n_cores", "LOW_DR", "UP_DR", "KS_cut", "distance", "cell_line"}
\* keys of st.session_state.analysis_params beside sample_name and genome
ConfigureOptionalKeys ==
    {"cell_line", "n_cores", "distance", "ngene_chr", "win_size", "ks_cut",
     "low_dr", "up_dr", "plot_genes"}
ConfigureOnlyKeys == {"ks_cut", "low_dr", "up_dr", "plot_genes"}
AllKeys == RequiredKeys \cup BuilderOptionalKeys \cup ConfigureOptionalKeys

Genomes == {"hg20", "hg19"}
ScriptPaths == {"backend/r_scripts/copykat_analysis.R", "scripts/other.R"}

FullParams(genome) ==
    [k \in AllKeys |->
        CASE k = "input_file" -> StrV("backend/data/raw/sample.txt.gz")
          [] k = "sample_name" -> StrV("s1")
          [] k = "output_dir" -> StrV("backend/results")
          [] k = "genome" -> StrV(genome)
          [] k = "ngene_chr" -> IntV(5)
          [] k = "win_size" -> IntV(25)
          [] k = "n_cores" -> IntV(4)
          [] k \in {"LOW_DR", "low_dr"} -> FloatV(5)
          [] k \in {"UP_DR", "up_dr"} -> FloatV(10)
          [] k \in {"KS_cut", "ks_cut"} -> FloatV(15)
          [] k = "distance" -> StrV("euclidean")
          [] k = "cell_line" -> StrV("no")
          [] k = "plot_genes" -> BoolV(TRUE)]

Restrict(f, ks) == [k \in ks |-> f[k]]

\* params of a run: any subset of the required keys, with no optional key,
\* with the keys the builder reads, or with the keys the Configure page stores
RunParamsSet ==
    { Restrict(FullParams(g), req \cup opt) :
        g \in Genomes, req \in SUBSET RequiredKeys,
        opt \in {{}, BuilderOptionalKeys, ConfigureOptionalKeys} }

\* params of a build_r_command call: the required keys and any optional keys
BuildParamsSet ==
    { Restrict(FullParams("hg20"), RequiredKeys \cup o \cup c) :
        o \in SUBSET BuilderOptionalKeys, c \in {{}, ConfigureOnlyKeys} }

\* keys a caller may remove from its dict between two calls
DropKeys == {"ngene_chr", "cell_line"}

\* --------------------------------------- repeated build_r_command calls
BuildInit ==
    /\ bParams \in BuildParamsSet
    /\ bScript \in ScriptPaths
    /\ bPc = "ready"
    /\ bCalls = <<>>

\* one call: the function reads params and returns a fresh list
BuildCall ==
    /\ bPc = "ready"
    /\ Len(bCalls) < MaxCalls
    /\ bCalls' = Append(bCalls, [script |-> bScript, params |-> bParams,
                                 command |-> build_r_command(bScript, bParams)])
    /\ bPc' = "built"
    /\ UNCHANGED <<bParams, bScript>>
    /\ UNCHANGED nonBuildVars

\* the caller keeps or changes its arguments before the next call
CallerContinues ==
    /\ bPc = "built"
    /\ bPc' = "ready"
    /\ bScript' \in ScriptPaths
    /\ \E drop \in {{}} \cup {{k} : k \in DropKeys} :
         bParams' = Restrict(bParams, DOMAIN bParams \ drop)
    /\ UNCHANGED bCalls
    /\ UNCHANGED nonBuildVars

BuildIdle ==
    /\ bParams = Restrict(FullParams("hg20"), RequiredKeys)
    /\ bScript = "backend/r_scripts/copykat_analysis.R"
    /\ bPc = "ready"
    /\ bCalls = <<>>

\* ------------------------------------------------- the engine's world
Kinds == {"predictions", "cna_results", "heatmap", "log", "report"}

\* locate_output_files: the conventional file name of each kind
FileName(kind, sample_name) ==
    CASE kind = "predictions" -> sample_name \o "_copykat_prediction.txt"
      [] kind = "cna_results" -> sample_name \o "_copykat_CNA_results.txt"
      [] kind = "heatmap" -> sample_name \o "_copykat_heatmap.jpeg"
      [] kind = "log" -> "logs/analysis.log"
      [] kind = "report" -> sample_name \o "_report.html"

\* contents of a predictions file: unreadable as a table, or a table with
\* or without the copykat.pred column and one label per row
Tables ==
    { [ok |-> FALSE],
      [ok |-> TRUE, has_pred |-> TRUE, rows |-> <<>>],
      [ok |-> TRUE, has_pred |-> TRUE, rows |-> <<"aneuploid", "diploid", "aneuploid">>],
      [ok |-> TRUE, has_pred |-> FALSE, rows |-> <<"x", "y">>] }

\* what an engine run may leave in its output directory
EngineFileSets == {{}, {"predictions", "heatmap"}, Kinds}

NoEntries == [n \in {} |-> None]
OldEntry(sample_name) ==
    [n \in {sample_name \o "_t0"} |->
        [mtime |-> 0,
         files |-> {FileName(k, sample_name) : k \in {"predictions", "heatmap"}},
         table |-> [ok |-> TRUE, has_pred |-> TRUE, rows |-> <<"diploid">>]]]

\* the rest of an entry name that the `*` of the glob pattern may stand for
GlobRests == {"", "t0", "t1", "t2", "B_t1", "B_t2"}

Stderrs == {"", "Error in copykat(): boom"}

LaunchErrors ==
    { [type |-> "FileNotFoundError", errno |-> 2,
       strerror |-> "No such file or directory", filename |-> "Rscript"],
      [type |-> "PermissionError", errno |-> 13,
       strerror |-> "Permission denied", filename |-> "Rscript"] }

StatError(path) ==
    [type |-> "FileNotFoundError", errno |-> 2,
     strerror |-> "No such file or directory", filename |-> path]

\* str(e) of an OSError
PyExcStr(e) ==
    <<"[Errno ", ToString(e.errno), "] ", e.strerror, ": '", e.filename, "'">>

\* ------------------------------------------------ find_output_directory
PathJoin(base_dir, name) == base_dir \o "/" \o name

\* base_path.glob(f"{sample_name}_*")
GlobMatches(dir, sample_name) ==
    { n \in DOMAIN dir.entries : \E r \in GlobRests : n = sample_name \o "_" \o r }

\* mutant: with no matching entry the base directory itself is returned
find_output_directory_FallsBack(dir, base_dir, sample_name) ==
    IF ~dir.base_exists THEN {<<base_dir>>}
    ELSE LET matching_dirs == GlobMatches(dir, sample_name)
         IN  IF matching_dirs # {}
             THEN { <<PathJoin(base_dir, n)>> :
                      n \in { m \in matching_dirs :
                                \A o \in matching_dirs :
                                    dir.entries[o].mtime <= dir.entries[m].mtime } }
             ELSE {<<base_dir>>}

\* the values find_output_directory may return: max() keeps the first entry
\* of greatest mtime in the order glob yields them, which is not specified
find_output_directory(dir, base_dir, sample_name) ==
    IF ~dir.base_exists THEN {None}
    ELSE LET matching_dirs == GlobMatches(dir, sample_name)
         IN  IF matching_dirs # {}
             THEN { <<PathJoin(base_dir, n)>> :
                      n \in { m \in matching_dirs :
                                \A o \in matching_dirs :
                                    dir.entries[o].mtime <= dir.entries[m].mtime } }
             ELSE {None}

\* ------------------------------------------------- locate_output_files
FilesUnder(dir, base_dir, path) ==
    IF \E n \in DOMAIN dir.entries : PathJoin(base_dir, n) = path
    THEN dir.entries[CHOOSE n \in DOMAIN dir.entries : PathJoin(base_dir, n) = path].files
    ELSE {}

\* mutant: every kind is reported, existing or not
locate_output_files_AllKinds(dir, base_dir, path, sample_name) ==
    [k \in Kinds |-> PathJoin(path, FileName(k, sample_name))]

locate_output_files(dir, base_dir, path, sample_name) ==
    LET existing == { k \in Kinds : FileName(k, sample_name) \in FilesUnder(dir, base_dir, path) }
    IN  [k \in existing |-> PathJoin(path, FileName(k, sample_name))]

\* --------------------------------------------------- find_latest_result
\* shared/utils.py: the same lookup with results_dir made absolute; the
\* values it may return
find_latest_result(dir, sample_name, results_dir) ==
    IF ~dir.base_exists THEN {None}
    ELSE LET matches == GlobMatches(dir, sample_name)
         IN  IF matches = {} THEN {None}
             ELSE { <<PathJoin(results_dir, n)>> :
                      n \in { m \in matches :
                                \A o \in matches :
                                    dir.entries[o].mtime <= dir.entries[m].mtime } }

\* ------------------------------------------ extract_summary_statistics
TableAt(dir, base_dir, file) ==
    LET holders == { n \in DOMAIN dir.entries :
                       \E f \in dir.entries[n].files : PathJoin(PathJoin(base_dir, n), f) = file }
    IN  IF holders = {} THEN None ELSE <<dir.entries[CHOOSE n \in holders : TRUE].table>>

Count(rows, label) == Cardinality({ i \in DOMAIN rows : rows[i] = label })

\* n_aneuploid / n_cells as a fraction
Fraction(num, den) == [num |-> num, den |-> den]

ZeroSummary ==
    [n_cells |-> 0, n_aneuploid |-> 0, n_diploid |-> 0, n_not_defined |-> 0,
     aneuploid_fraction |-> Fraction(0, 1)]

\* mutant: n_cells counts the aneuploid and diploid rows only
extract_summary_statistics_ClassifiedCells(dir, base_dir, fls) ==
    LET t == IF "predictions" \in DOMAIN fls THEN TableAt(dir, base_dir, fls["predictions"]) ELSE None
    IN  IF t = None THEN ZeroSummary
        ELSE IF ~t[1].ok THEN ZeroSummary
        ELSE LET rows == t[1].rows
                 a == Count(rows, "aneuploid")
                 n == a + Count(rows, "diploid")
             IN  IF ~t[1].has_pred THEN [ZeroSummary EXCEPT !.n_cells = Len(rows)]
                 ELSE [n_cells |-> n,
                       n_aneuploid |-> a,
                       n_diploid |-> Count(rows, "diploid"),
                       n_not_defined |-> Count(rows, "not.defined"),
                       aneuploid_fraction |-> IF n > 0 THEN Fraction(a, n) ELSE Fraction(0, 1)]

extract_summary_statistics(dir, base_dir, fls) ==
    LET t == IF "predictions" \in DOMAIN fls THEN TableAt(dir, base_dir, fls["predictions"]) ELSE None
    IN  IF t = None THEN ZeroSummary
        ELSE IF ~t[1].ok THEN ZeroSummary
        ELSE LET rows == t[1].rows
                 n == Len(rows)
                 a == Count(rows, "aneuploid")
             IN  IF ~t[1].has_pred THEN [ZeroSummary EXCEPT !.n_cells = n]
                 ELSE [n_cells |-> n,
                       n_aneuploid |-> a,
                       n_diploid |-> Count(rows, "diploid"),
                       n_not_defined |-> Count(rows, "not.defined"),
                       aneuploid_fraction |-> IF n > 0 THEN Fraction(a, n) ELSE Fraction(0, 1)]

\* ------------------------------------------------ run_copykat_analysis
required_params == <<"input_file", "sample_name", "output_dir", "genome">>
r_script_path == "backend/r_scripts/copykat_analysis.R"

EmptyDict == [k \in {} |-> None]

MissingParameterMessage(param) == <<"Missing required parameter: ", param>>
ScriptFailedMessage(e) == <<"R script failed: ", e.stderr>>
UnexpectedErrorMessage(e) == <<"Unexpected error: ">> \o PyExcStr(e)
OutputNotFoundMessage == <<"Output directory not found">>

FailureRecord(error, minutes) ==
    [success |-> FALSE, error |-> error, output_dir |-> None,
     files |-> EmptyDict, summary |-> EmptyDict, runtime_minutes |-> minutes]

\* mutant: the success record carries an empty error string instead of None
SuccessRecord_EmptyError(dir_path, fls, smry, minutes, now) ==
    [success |-> TRUE, output_dir |-> dir_path, files |-> fls, summary |-> smry,
     runtime_minutes |-> minutes, error |-> <<"">>, timestamp |-> [iso |-> now]]

SuccessRecord(dir_path, fls, smry, minutes, now) ==
    [success |-> TRUE, output_dir |-> dir_path, files |-> fls, summary |-> smry,
     runtime_minutes |-> minutes, error |-> None, timestamp |-> [iso |-> now]]

\* the first required parameter that params lacks, in the order of the loop
FirstMissing(p) ==
    LET missing == { i \in DOMAIN required_params : required_params[i] \notin DOMAIN p }
    IN  required_params[CHOOSE i \in missing : \A j \in missing : i <= j]

NoCalls == [popen |-> 0, wait |-> 0, find |-> 0, locate |-> 0, summarize |-> 0, returns |-> 0]
Called(op) == calls' = [calls EXCEPT ![op] = @ + 1]

Return(record) ==
    /\ result' = record
    /\ pc' = "done"

RunInit ==
    /\ params = None
    /\ pc = "idle"
    /\ command = None
    /\ proc = [state |-> "none"]
    /\ clock = 0
    /\ start_time = None
    /\ runtime = None
    /\ fs \in { [base_exists |-> FALSE, entries |-> NoEntries],
                [base_exists |-> TRUE, entries |-> NoEntries],
                [base_exists |-> TRUE, entries |-> OldEntry("s1")] }
    /\ output_dir = None
    /\ files = None
    /\ summary = None
    /\ result = None
    /\ calls = NoCalls

\* the frontend calls run_copykat_analysis(params)
Call ==
    /\ pc = "idle"
    /\ \E p \in RunParamsSet : params' = p
    /\ pc' = "check_required"
    /\ UNCHANGED <<command, proc, clock, start_time, runtime, fs, output_dir,
                   files, summary, result, calls>>
    /\ UNCHANGED nonRunVars

\* the loop over required_params returns at the first missing one
ReturnMissing ==
    /\ pc = "check_required"
    /\ \E k \in RequiredKeys : k \notin DOMAIN params
    /\ Return(FailureRecord(MissingParameterMessage(FirstMissing(params)), 0))
    /\ calls' = [calls EXCEPT !.returns = @ + 1]
    /\ UNCHANGED <<params, command, proc, clock, start_time, runtime, fs,
                   output_dir, files, summary>>
    /\ UNCHANGED nonRunVars

\* command = build_r_command(r_script_path, params)
BuildCommand ==
    /\ pc = "check_required"
    /\ RequiredKeys \subseteq DOMAIN params
    /\ command' = build_r_command(r_script_path, params)
    /\ pc' = "launch"
    /\ UNCHANGED <<params, proc, clock, start_time, runtime, fs, output_dir,
                   files, summary, result, calls>>
    /\ UNCHANGED nonRunVars

\* subprocess.run starts the child: the engine cannot be started
LaunchFails ==
    /\ pc = "launch"
    /\ start_time' = <<clock>>
    /\ \E e \in LaunchErrors : Return(FailureRecord(UnexpectedErrorMessage(e), 0))
    /\ calls' = [calls EXCEPT !.popen = @ + 1, !.returns = @ + 1]
    /\ UNCHANGED <<params, command, proc, clock, runtime, fs, output_dir, files, summary>>
    /\ UNCHANGED nonRunVars

\* subprocess.run starts the child: the engine is running
LaunchStarts ==
    /\ pc = "launch"
    /\ start_time' = <<clock>>
    /\ proc' = [state |-> "running"]
    /\ pc' = "wait"
    /\ Called("popen")
    /\ UNCHANGED <<params, command, clock, runtime, fs, output_dir, files, summary, result>>
    /\ UNCHANGED nonRunVars

\* the engine runs and exits; it may have written an output directory
EngineExits ==
    /\ proc.state = "running"
    /\ \E code \in 0..MaxExit, err \in Stderrs, d \in 0..MaxDuration :
         /\ proc' = [state |-> "exited", returncode |-> code, stderr |-> err]
         /\ clock' = clock + d
         /\ \/ UNCHANGED fs
            \/ \E fl \in EngineFileSets, t \in Tables :
                 LET sample == params["sample_name"].str
                     name == sample \o "_t1"
                     entry == [mtime |-> clock + d,
                               files |-> {FileName(k, sample) : k \in fl},
                               table |-> t]
                 IN  /\ "predictions" \in fl \/ t = [ok |-> FALSE]
                     /\ fs' = [base_exists |-> TRUE,
                               entries |-> [n \in DOMAIN fs.entries \cup {name} |->
                                              IF n = name THEN entry ELSE fs.entries[n]]]
    /\ UNCHANGED <<params, pc, command, start_time, runtime, output_dir, files,
                   summary, result, calls>>
    /\ UNCHANGED nonRunVars

\* mutant: a failed engine run is launched again instead of being reported
RunRaisesCalledProcessError_Retries ==
    /\ pc = "wait"
    /\ proc.state = "exited"
    /\ proc.returncode # 0
    /\ proc' = [state |-> "none"]
    /\ pc' = "launch"
    /\ Called("wait")
    /\ UNCHANGED <<params, command, clock, start_time, runtime, fs,
                   output_dir, files, summary, result>>
    /\ UNCHANGED nonRunVars

\* subprocess.run waited, check=True: CalledProcessError on a non-zero exit
RunRaisesCalledProcessError ==
    /\ pc = "wait"
    /\ proc.state = "exited"
    /\ proc.returncode # 0
    /\ Return(FailureRecord(
            ScriptFailedMessage([returncode |-> proc.returncode, cmd |-> command,
                                 stderr |-> proc.stderr]), 0))
    /\ calls' = [calls EXCEPT !.wait = @ + 1, !.returns = @ + 1]
    /\ UNCHANGED <<params, command, proc, clock, start_time, runtime, fs,
                   output_dir, files, summary>>
    /\ UNCHANGED nonRunVars

\* subprocess.run returns; runtime = end_time - start_time
RunReturns ==
    /\ pc = "wait"
    /\ proc.state = "exited"
    /\ proc.returncode = 0
    /\ runtime' = <<clock - start_time[1]>>
    /\ pc' = "find"
    /\ Called("wait")
    /\ UNCHANGED <<params, command, proc, clock, start_time, fs, output_dir,
                   files, summary, result>>
    /\ UNCHANGED nonRunVars

\* output_dir = find_output_directory(...): a directory is found
FindReturnsDirectory ==
    /\ pc = "find"
    /\ \E d \in find_output_directory(fs, params["output_dir"].str, params["sample_name"].str) :
         /\ d # None
         /\ output_dir' = d
    /\ pc' = "locate"
    /\ Called("find")
    /\ UNCHANGED <<params, command, proc, clock, start_time, runtime, fs,
                   files, summary, result>>
    /\ UNCHANGED nonRunVars

\* output_dir = find_output_directory(...): None, the else branch returns
FindReturnsNone ==
    /\ pc = "find"
    /\ None \in find_output_directory(fs, params["output_dir"].str, params["sample_name"].str)
    /\ Return(FailureRecord(OutputNotFoundMessage, runtime[1]))
    /\ calls' = [calls EXCEPT !.find = @ + 1, !.returns = @ + 1]
    /\ UNCHANGED <<params, command, proc, clock, start_time, runtime, fs,
                   output_dir, files, summary>>
    /\ UNCHANGED nonRunVars

\* p.stat() raises inside find_output_directory (an entry is not accessible)
FindRaises ==
    /\ pc = "find"
    /\ \E n \in GlobMatches(fs, params["sample_name"].str) :
         Return(FailureRecord(
            UnexpectedErrorMessage(StatError(PathJoin(params["output_dir"].str, n))), 0))
    /\ calls' = [calls EXCEPT !.find = @ + 1, !.returns = @ + 1]
    /\ UNCHANGED <<params, command, proc, clock, start_time, runtime, fs,
                   output_dir, files, summary>>
    /\ UNCHANGED nonRunVars

\* files = locate_output_files(output_dir, params['sample_name'])
LocateFiles ==
    /\ pc = "locate"
    /\ files' = locate_output_files(fs, params["output_dir"].str, output_dir[1],
                                    params["sample_name"].str)
    /\ pc' = "summarize"
    /\ Called("locate")
    /\ UNCHANGED <<params, command, proc, clock, start_time, runtime, fs,
                   output_dir, summary, result>>
    /\ UNCHANGED nonRunVars

\* summary = extract_summary_statistics(files); the success record is returned
SummarizeAndReturn ==
    /\ pc = "summarize"
    /\ summary' = extract_summary_statistics(fs, params["output_dir"].str, files)
    /\ Return(SuccessRecord(output_dir, files, summary', runtime[1], clock))
    /\ calls' = [calls EXCEPT !.summarize = @ + 1, !.returns = @ + 1]
    /\ UNCHANGED <<params, command, proc, clock, start_time, runtime, fs,
                   output_dir, files>>
    /\ UNCHANGED nonRunVars

RunNext ==
    \/ Call
    \/ ReturnMissing
    \/ BuildCommand
    \/ LaunchFails
    \/ LaunchStarts
    \/ EngineExits
    \/ RunRaisesCalledProcessError
    \/ RunReturns
    \/ FindReturnsDirectory
    \/ FindReturnsNone
    \/ FindRaises
    \/ LocateFiles
    \/ SummarizeAndReturn

RunIdle ==
    /\ params = None
    /\ pc = "idle"
    /\ command = None
    /\ proc = [state |-> "none"]
    /\ clock = 0
    /\ start_time = None
    /\ runtime = None
    /\ fs = [base_exists |-> FALSE, entries |-> NoEntries]
    /\ output_dir = None
    /\ files = None
    /\ summary = None
    /\ result = None
    /\ calls = NoCalls

\* ----------------------------------------------------- result_parser.py
RECURSIVE SumSeq(_)
SumSeq(seq) == IF seq = <<>> THEN 0 ELSE seq[1] + SumSeq(Tail(seq))

\* float('nan'): the mean of an empty column
NaN == [nan |-> TRUE]

\* mutant: the fraction is computed for an empty table too
generate_summary_Unguarded(predictions) ==
    LET n == Len(predictions.rows)
        a == Count(predictions.rows, "aneuploid")
    IN  [n_cells |-> n,
         n_aneuploid |-> IF predictions.has_pred THEN a ELSE 0,
         n_diploid |-> IF predictions.has_pred THEN Count(predictions.rows, "diploid") ELSE 0,
         n_not_defined |-> IF predictions.has_pred THEN Count(predictions.rows, "not.defined") ELSE 0,
         aneuploid_fraction |-> IF predictions.has_pred THEN Fraction(a, n) ELSE Fraction(0, 1),
         mean_confidence |-> IF predictions.has_conf
                             THEN IF n > 0 THEN Fraction(SumSeq(predictions.conf), n) ELSE NaN
                             ELSE Fraction(0, 1)]

\* generate_summary(predictions); confidences and their mean in hundredths
generate_summary(predictions) ==
    LET n == Len(predictions.rows)
        a == Count(predictions.rows, "aneuploid")
    IN  [n_cells |-> n,
         n_aneuploid |-> IF predictions.has_pred THEN a ELSE 0,
         n_diploid |-> IF predictions.has_pred THEN Count(predictions.rows, "diploid") ELSE 0,
         n_not_defined |-> IF predictions.has_pred THEN Count(predictions.rows, "not.defined") ELSE 0,
         aneuploid_fraction |-> IF predictions.has_pred /\ n > 0
                                THEN Fraction(a, n) ELSE Fraction(0, 1),
         mean_confidence |-> IF predictions.has_conf
                             THEN IF n > 0 THEN Fraction(SumSeq(predictions.conf), n) ELSE NaN
                             ELSE Fraction(0, 1)]

\* find_file(directory, pattern) for the pattern of a kind: matches[0] of
\* the glob, any of the matches
find_file(fls, kind) ==
    LET matches == { f \in fls : \E sn \in {"s1", "s1x"} : f = FileName(kind, sn) }
    IN  IF matches = {} THEN {None} ELSE { <<m>> : m \in matches }

Raised(msg) == [raised |-> TRUE, error |-> msg]

\* parse_copykat_results with the files find_file gave it
ParseFound(entry, path, pf, cf, hf, rf) ==
    IF pf # None /\ ~entry.table.ok
    THEN Raised(<<"Error parsing predictions file: ", entry.table.err>>)
    ELSE IF cf # None /\ ~entry.cna.ok
    THEN Raised(<<"Error parsing CNA segments file: ", entry.cna.err>>)
    ELSE LET found == [k \in {"predictions", "cna_results", "heatmap", "report"} |->
                          CASE k = "predictions" -> pf
                            [] k = "cna_results" -> cf
                            [] k = "heatmap" -> hf
                            [] k = "report" -> rf]
             keys == { k \in DOMAIN found : found[k] # None }
                     \cup (IF FileName("log", "") \in entry.files THEN {"log"} ELSE {})
         IN  [raised |-> FALSE,
              predictions |-> IF pf # None THEN <<entry.table>> ELSE None,
              cna_segments |-> IF cf # None THEN <<entry.cna>> ELSE None,
              summary |-> IF pf # None THEN generate_summary(entry.table) ELSE EmptyDict,
              file_paths |-> [k \in keys |->
                                IF k = "log" THEN PathJoin(path, FileName("log", ""))
                                ELSE PathJoin(path, found[k][1])]]

\* parse_copykat_results(output_dir): the values it may return or raise
parse_copykat_results(dir, base_dir, path) ==
    IF ~\E n \in DOMAIN dir.entries : PathJoin(base_dir, n) = path
    THEN { Raised(<<"Output directory not found: ", path>>) }
    ELSE LET entry == dir.entries[CHOOSE n \in DOMAIN dir.entries :
                                      PathJoin(base_dir, n) = path]
         IN  { ParseFound(entry, path, pf, cf, hf, rf) :
                 pf \in find_file(entry.files, "predictions"),
                 cf \in find_file(entry.files, "cna_results"),
                 hf \in find_file(entry.files, "heatmap"),
                 rf \in find_file(entry.files, "report") }

\* ------------------------------------- the locator applied to a directory
LocateBase == "backend/results"
LocateSamples == {"s1", "s1x"}
\* entry names: two runs of s1, one of s1x, and a name without the underscore
LocateNames == {"s1_t0", "s1_t1", "s1x_t0", "s1"}
\* file names a directory may hold: the conventional files of s1 and a file
\* of another sample
FileUniverse == {FileName(k, "s1") : k \in Kinds} \cup {FileName("predictions", "s1x")}

\* directory contents: any of the names, each with any mtime; the files vary
\* in the directory s1_t1
LocateDirs ==
    { [base_exists |-> FALSE, entries |-> NoEntries] }
    \cup
    { [base_exists |-> TRUE,
       entries |-> [n \in names |->
                      [mtime |-> mt[n], files |-> IF n = "s1_t1" THEN fl ELSE {}]]] :
        names \in SUBSET LocateNames, mt \in [LocateNames -> 0..MaxMtime],
        fl \in SUBSET FileUniverse }

NotApplied == [fn |-> "none"]

LocateInit ==
    /\ \E d \in LocateDirs, s \in LocateSamples :
         lIn = [dir |-> d, base_dir |-> LocateBase, sample_name |-> s]
    /\ lOut = NotApplied

\* find_output_directory(base_dir, sample_name)
FindOutputDirectory ==
    /\ lOut = NotApplied
    /\ \E d \in find_output_directory(lIn.dir, lIn.base_dir, lIn.sample_name) :
         lOut' = [fn |-> "find_output_directory", value |-> d]
    /\ UNCHANGED lIn
    /\ UNCHANGED nonLocateVars

\* find_latest_result(sample_name, results_dir)
FindLatestResult ==
    /\ lOut = NotApplied
    /\ \E d \in find_latest_result(lIn.dir, lIn.sample_name, lIn.base_dir) :
         lOut' = [fn |-> "find_latest_result", value |-> d]
    /\ UNCHANGED lIn
    /\ UNCHANGED nonLocateVars

\* locate_output_files(output_dir, sample_name) for a directory of the base,
\* existing or not
LocateOutputFiles ==
    /\ lOut = NotApplied
    /\ \E n \in LocateNames :
         LET path == PathJoin(lIn.base_dir, n)
         IN  lOut' = [fn |-> "locate_output_files", path |-> path,
                      value |-> locate_output_files(lIn.dir, lIn.base_dir, path,
                                                    lIn.sample_name)]
    /\ UNCHANGED lIn
    /\ UNCHANGED nonLocateVars

LocateIdle ==
    /\ lIn = [dir |-> [base_exists |-> FALSE, entries |-> NoEntries],
              base_dir |-> LocateBase, sample_name |-> "s1"]
    /\ lOut = NotApplied

\* ------------------------------------------------- parameter validators
\* a str is the sequence of its characters; "U+00E9" is the one character
\* e with acute accent
PyAlnumChars == {"a", "U+00E9"}
\* str.replace(old, '') for a one-character old
Replace(str, old) == SelectSeq(str, LAMBDA c : c # old)
\* str.isalnum(): at least one character and all of them alphanumeric
IsAlnum(str) == Len(str) > 0 /\ \A i \in DOMAIN str : str[i] \in PyAlnumChars
\* dict.get(key, default)
Get(dict, key, default) == IF key \in DOMAIN dict THEN dict[key] ELSE default

\* mutant: the order of the two rates is checked only when both are in range
validate_parameters_ElifChain(prm) ==
    LET sample_name == Get(prm, "sample_name", <<>>)
        genome == Get(prm, "genome", "")
        n_cores == Get(prm, "n_cores", 0)
        low_dr == Get(prm, "low_dr", 0)
        up_dr == Get(prm, "up_dr", 0)
        win_size == Get(prm, "win_size", 0)
        errors ==
            (IF sample_name = <<>> THEN << <<"Sample name", " is required">> >>
             ELSE IF ~IsAlnum(Replace(sample_name, "_"))
             THEN << <<"Sample name", " must be alphanumeric (underscores allowed)">> >>
             ELSE <<>>)
            \o (IF genome \notin {"hg20", "mm10"}
                THEN << <<"Invalid ", "genome", ": ", genome, ". Must be 'hg20' or 'mm10'">> >>
                ELSE <<>>)
            \o (IF n_cores < 1 \/ n_cores > 64
                THEN << <<"n_cores", " must be between 1 and 64">> >> ELSE <<>>)
            \o (IF low_dr < 1 \/ low_dr > 50
                THEN << <<"LOW.DR", " must be between 0.01 and 0.5">> >>
                ELSE IF up_dr < 1 \/ up_dr > 50
                THEN << <<"UP.DR", " must be between 0.01 and 0.5">> >>
                ELSE IF up_dr < low_dr
                THEN << <<"UP.DR", " must be >= ", "LOW.DR">> >> ELSE <<>>)
            \o (IF win_size < 10 \/ win_size > 200
                THEN << <<"Window size", " must be between 10 and 200">> >> ELSE <<>>)
    IN  [is_valid |-> Len(errors) = 0, errors |-> errors]

\* validate_parameters(params); rates in hundredths
validate_parameters(prm) ==
    LET sample_name == Get(prm, "sample_name", <<>>)
        genome == Get(prm, "genome", "")
        n_cores == Get(prm, "n_cores", 0)
        low_dr == Get(prm, "low_dr", 0)
        up_dr == Get(prm, "up_dr", 0)
        win_size == Get(prm, "win_size", 0)
        errors ==
            (IF sample_name = <<>> THEN << <<"Sample name", " is required">> >>
             ELSE IF ~IsAlnum(Replace(sample_name, "_"))
             THEN << <<"Sample name", " must be alphanumeric (underscores allowed)">> >>
             ELSE <<>>)
            \o (IF genome \notin {"hg20", "mm10"}
                THEN << <<"Invalid ", "genome", ": ", genome, ". Must be 'hg20' or 'mm10'">> >>
                ELSE <<>>)
            \o (IF n_cores < 1 \/ n_cores > 64
                THEN << <<"n_cores", " must be between 1 and 64">> >> ELSE <<>>)
            \o (IF low_dr < 1 \/ low_dr > 50
                THEN << <<"LOW.DR", " must be between 0.01 and 0.5">> >> ELSE <<>>)
            \o (IF up_dr < 1 \/ up_dr > 50
                THEN << <<"UP.DR", " must be between 0.01 and 0.5">> >> ELSE <<>>)
            \o (IF up_dr < low_dr
                THEN << <<"UP.DR", " must be >= ", "LOW.DR">> >> ELSE <<>>)
            \o (IF win_size < 10 \/ win_size > 200
                THEN << <<"Window size", " must be between 10 and 200">> >> ELSE <<>>)
    IN  [is_valid |-> Len(errors) = 0, errors |-> errors]

\* validate_sample_name(name)
validate_sample_name(name) ==
    IF name = <<>>
    THEN [is_valid |-> FALSE, error |-> <<"Sample name", " cannot be empty">>]
    ELSE IF ~IsAlnum(Replace(name, "_"))
    THEN [is_valid |-> FALSE,
          error |-> <<"Sample name", " must be alphanumeric (underscores allowed)">>]
    ELSE IF Len(name) > 50
    THEN [is_valid |-> FALSE, error |-> <<"Sample name", " too long (max 50 characters)">>]
    ELSE [is_valid |-> TRUE, error |-> <<>>]

\* validate_config(config); rates in hundredths
validate_config(config) ==
    LET copykat == IF "copykat" \in DOMAIN config THEN config["copykat"] ELSE EmptyDict
        errors ==
            (IF "input" \notin DOMAIN config
             THEN << <<"Missing required section: ", "input">> >> ELSE <<>>)
            \o (IF "output" \notin DOMAIN config
                THEN << <<"Missing required section: ", "output">> >> ELSE <<>>)
            \o (IF "copykat" \notin DOMAIN config
                THEN << <<"Missing required section: ", "copykat">> >> ELSE <<>>)
            \o (IF "input" \in DOMAIN config /\ "file" \notin DOMAIN config["input"]
                THEN << <<"Missing required field: ", "input.file">> >> ELSE <<>>)
            \o (IF "output" \in DOMAIN config /\ "directory" \notin DOMAIN config["output"]
                THEN << <<"Missing required field: ", "output.directory">> >> ELSE <<>>)
            \o (IF "output" \in DOMAIN config /\ "sample_name" \notin DOMAIN config["output"]
                THEN << <<"Missing required field: ", "output.sample_name">> >> ELSE <<>>)
            \o (IF "genome" \in DOMAIN copykat /\ copykat["genome"] \notin {"hg20", "mm10"}
                THEN << <<"Invalid ", "genome", ": ", copykat["genome"]>> >> ELSE <<>>)
            \o (IF "LOW_DR" \in DOMAIN copykat
                   /\ ~(0 < copykat["LOW_DR"] /\ copykat["LOW_DR"] <= 50)
                THEN << <<"LOW_DR", " must be between 0.0 and 0.5">> >> ELSE <<>>)
            \o (IF "UP_DR" \in DOMAIN copykat
                   /\ ~(0 < copykat["UP_DR"] /\ copykat["UP_DR"] <= 50)
                THEN << <<"UP_DR", " must be between 0.0 and 0.5">> >> ELSE <<>>)
            \o (IF "LOW_DR" \in DOMAIN copykat /\ "UP_DR" \in DOMAIN copykat
                   /\ copykat["UP_DR"] < copykat["LOW_DR"]
                THEN << <<"UP_DR", " must be >= ", "LOW_DR">> >> ELSE <<>>)
    IN  [is_valid |-> Len(errors) = 0, errors |-> errors]

\* one run of the Configure page with the form submitted: the messages of
\* st.error in order, and whether analysis_params was stored; st.stop()
\* ends the run
ConfigureSubmit(sample_name, low_dr, up_dr) ==
    LET in_form == IF up_dr < low_dr
                   THEN << <<"U+26A0 ", "UP.DR", " must be greater than or equal to ", "LOW.DR">> >>
                   ELSE <<>>
    IN  IF sample_name = <<>> \/ ~IsAlnum(Replace(sample_name, "_"))
        THEN [shown |-> in_form
                          \o << <<"Sample name", " must be alphanumeric (underscores allowed)">> >>,
              stored |-> FALSE]
        ELSE IF up_dr < low_dr
        THEN [shown |-> in_form
                          \o << <<"UP.DR", " must be >= ", "LOW.DR", ". Please adjust parameters.">> >>,
              stored |-> FALSE]
        ELSE [shown |-> in_form, stored |-> TRUE]

\* ------------------------------ the summarizers applied to a directory
\* rows of a predictions table: the copykat.pred label and the
\* copykat.confidence value (hundredths)
RowUniverse ==
    { [pred |-> "aneuploid", conf |-> 90], [pred |-> "diploid", conf |-> 40],
      [pred |-> "not.defined", conf |-> 40], [pred |-> "Aneuploid", conf |-> 90] }
RowSeqs == UNION { [1..n -> RowUniverse] : n \in 0..MaxRows }

\* str(e) of the exception pd.read_csv raises on a malformed file
ParseErrors ==
    { "No columns to parse from file",
      "Error tokenizing data. C error: Expected 2 fields in line 3, saw 3" }

\* the cell of a row in a column the table does not have
NoCell == "-"

\* contents of a predictions file: unparsable, or a table with or without
\* each of the two columns
SummaryTables ==
    { [ok |-> FALSE, err |-> e] : e \in ParseErrors }
    \cup
    { [ok |-> TRUE,
       has_pred |-> hp,
       rows |-> [i \in 1..Len(rs) |-> IF hp THEN rs[i].pred ELSE NoCell],
       has_conf |-> hc,
       conf |-> [i \in 1..Len(rs) |-> IF hc THEN rs[i].conf ELSE 0]] :
        rs \in RowSeqs, hp \in BOOLEAN, hc \in BOOLEAN }

NoTable == [ok |-> TRUE, has_pred |-> FALSE, rows |-> <<>>, has_conf |-> FALSE, conf |-> <<>>]

\* contents of a CNA results file
CnaContents == { [ok |-> TRUE] } \cup { [ok |-> FALSE, err |-> e] : e \in ParseErrors }

SummarySample == "s1"
SummaryPath == PathJoin(LocateBase, "s1_t0")

\* output directories: missing, or holding any of the conventional files
SummaryInputs ==
    { [exists |-> FALSE, files |-> {}, table |-> NoTable, cna |-> [ok |-> TRUE]] }
    \cup
    { i \in [exists : {TRUE},
             files : { {FileName(k, SummarySample) : k \in ks} : ks \in SUBSET Kinds },
             table : SummaryTables,
             cna : CnaContents] :
        /\ FileName("predictions", SummarySample) \in i.files \/ i.table = NoTable
        /\ FileName("cna_results", SummarySample) \in i.files \/ i.cna = [ok |-> TRUE] }

\* the filesystem holding the output directory
SummaryDir(in) ==
    [base_exists |-> TRUE,
     entries |-> [n \in (IF in.exists THEN {"s1_t0"} ELSE {}) |->
                    [mtime |-> 0, files |-> in.files, table |-> in.table, cna |-> in.cna]]]

SummaryInit ==
    /\ sIn \in SummaryInputs
    /\ sOut = NotApplied

\* generate_summary on the parsed predictions table
GenerateSummary ==
    /\ sOut = NotApplied
    /\ FileName("predictions", SummarySample) \in sIn.files
    /\ sIn.table.ok
    /\ sOut' = [fn |-> "generate_summary", value |-> generate_summary(sIn.table)]
    /\ UNCHANGED sIn
    /\ UNCHANGED nonSummaryVars

\* extract_summary_statistics(files) on the located files, as
\* run_copykat_analysis calls it
ExtractSummaryStatistics ==
    /\ sOut = NotApplied
    /\ sIn.exists
    /\ LET fls == locate_output_files(SummaryDir(sIn), LocateBase, SummaryPath, SummarySample)
       IN  sOut' = [fn |-> "extract_summary_statistics", files |-> fls,
                    value |-> extract_summary_statistics(SummaryDir(sIn), LocateBase, fls)]
    /\ UNCHANGED sIn
    /\ UNCHANGED nonSummaryVars

\* parse_copykat_results(output_dir)
ParseCopykatResults ==
    /\ sOut = NotApplied
    /\ \E v \in parse_copykat_results(SummaryDir(sIn), LocateBase, SummaryPath) :
         sOut' = [fn |-> "parse_copykat_results", value |-> v]
    /\ UNCHANGED sIn
    /\ UNCHANGED nonSummaryVars

SummaryIdle ==
    /\ sIn = [exists |-> FALSE, files |-> {}, table |-> NoTable, cna |-> [ok |-> TRUE]]
    /\ sOut = NotApplied

\* ----------------------------- the validators applied to a params dict
Alphabet == {"a", "_", "-", "U+00E9"}
ShortNames == UNION { [1..n -> Alphabet] : n \in 0..MaxNameLen }
LongName(n) == [i \in 1..n |-> "a"]
\* short names and names around the length limit of validate_sample_name
SampleNames == ShortNames \cup {LongName(50), LongName(51)}

\* a key of a dict: absent, or present with a value of S
Opt(S) == {<<>>} \cup { <<v>> : v \in S }
OptOf(dict, key) == IF key \in DOMAIN dict THEN <<dict[key]>> ELSE <<>>
\* the dict of the keys that are present
Dict(opt) == [k \in { j \in DOMAIN opt : opt[j] # <<>> } |-> opt[k][1]]

\* params dictionaries: any key absent, values inside and outside the ranges
ValidateParamsSet ==
    { Dict([sample_name |-> sn, genome |-> g, n_cores |-> nc,
            low_dr |-> lo, up_dr |-> up, win_size |-> ws]) :
        sn \in Opt(SampleNames), g \in Opt({"hg20", "hg19"}), nc \in Opt({4, 65}),
        lo \in Opt({5, 30, 60}), up \in Opt({3, 10, 40, 51}), ws \in {<<25>>, <<5>>} }

\* the configuration file holding the parameters, with the sections secs
ConfigOf(prm, secs) ==
    [sec \in secs |->
        CASE sec = "input" -> [file |-> "data/expression.csv"]
          [] sec = "output" -> Dict([directory |-> <<"backend/results">>,
                                     sample_name |-> OptOf(prm, "sample_name")])
          [] sec = "copykat" -> Dict([genome |-> OptOf(prm, "genome"),
                                      LOW_DR |-> OptOf(prm, "low_dr"),
                                      UP_DR |-> OptOf(prm, "up_dr")])]

\* what the widgets of the Configure form can hold
FormCanHold(prm) ==
    /\ DOMAIN prm = {"sample_name", "genome", "n_cores", "low_dr", "up_dr", "win_size"}
    /\ prm["genome"] \in {"hg20", "mm10"}
    /\ prm["n_cores"] \in 1..8
    /\ prm["win_size"] \in 10..150
    /\ prm["low_dr"] \in 1..30
    /\ prm["up_dr"] \in 1..30

ValidateInit ==
    /\ vIn \in ValidateParamsSet
    /\ vOut = NotApplied

\* validate_parameters(params)
ValidateParameters ==
    /\ vOut = NotApplied
    /\ vOut' = [fn |-> "validate_parameters", value |-> validate_parameters(vIn)]
    /\ UNCHANGED vIn
    /\ UNCHANGED nonValidateVars

\* validate_sample_name(name)
ValidateSampleName ==
    /\ vOut = NotApplied
    /\ "sample_name" \in DOMAIN vIn
    /\ vOut' = [fn |-> "validate_sample_name",
                value |-> validate_sample_name(vIn["sample_name"])]
    /\ UNCHANGED vIn
    /\ UNCHANGED nonValidateVars

\* validate_config(config)
ValidateConfig ==
    /\ vOut = NotApplied
    /\ \E secs \in SUBSET {"input", "output", "copykat"} :
         LET config == ConfigOf(vIn, secs)
         IN  vOut' = [fn |-> "validate_config", config |-> config,
                      value |-> validate_config(config)]
    /\ UNCHANGED vIn
    /\ UNCHANGED nonValidateVars

\* the Configure page run with the form submitted
SubmitConfigurePage ==
    /\ vOut = NotApplied
    /\ FormCanHold(vIn)
    /\ vOut' = [fn |-> "configure",
                value |-> ConfigureSubmit(vIn["sample_name"], vIn["low_dr"], vIn["up_dr"])]
    /\ UNCHANGED vIn
    /\ UNCHANGED nonValidateVars

ValidateIdle ==
    /\ vIn = EmptyDict
    /\ vOut = NotApplied

\* ------------------------------------------------------ status_monitor.py
\* the checkpoints; progress in hundredths
stages ==
    << [progress |-> 10, message |-> "Loading and validating data..."],
       [progress |-> 20, message |-> "Quality control assessment..."],
       [progress |-> 30, message |-> "Preprocessing data..."],
       [progress |-> 40, message |-> "Running CopyKAT analysis..."],
       [progress |-> 90, message |-> "Processing results..."],
       [progress |-> 100, message |-> "Complete!"] >>

\* a line of the log: whether it contains STEP or INFO, and
\* line.split(":", 2)[2].strip() when the line has three parts
LogLines ==
    { [tagged |-> FALSE, msg |-> None],
      [tagged |-> TRUE, msg |-> None],
      [tagged |-> TRUE, msg |-> <<"">>],
      [tagged |-> TRUE, msg |-> <<"Reading matrix">>],
      [tagged |-> TRUE, msg |-> <<"Segmenting">>] }
Untagged(n) == [i \in 1..n |-> [tagged |-> FALSE, msg |-> None]]
\* short logs, and logs whose only tagged line is the 10th or the 11th from
\* the end
LogContents ==
    UNION { [1..n -> LogLines] : n \in 0..MaxLogLen }
    \cup { << [tagged |-> TRUE, msg |-> <<"Reading matrix">>] >> \o Untagged(n) : n \in {9, 10} }

\* the log_file argument: None, or the path of a file that is missing,
\* cannot be read, or holds lines
NoLog == [configured |-> FALSE, exists |-> FALSE, readable |-> FALSE, lines |-> <<>>]
MonitorLogs ==
    { NoLog,
      [configured |-> TRUE, exists |-> FALSE, readable |-> FALSE, lines |-> <<>>],
      [configured |-> TRUE, exists |-> TRUE, readable |-> FALSE, lines |-> <<>>] }
    \cup { [configured |-> TRUE, exists |-> TRUE, readable |-> TRUE, lines |-> ls] :
             ls \in LogContents }

\* mutant: the whole file is scanned, not the last 10 lines
parse_log_for_progress_WholeFile(log) ==
    IF ~log.readable THEN None
    ELSE LET lines == log.lines
             hits == { i \in 1..Len(lines) : lines[i].tagged /\ lines[i].msg # None }
         IN  IF hits = {} THEN None
             ELSE lines[CHOOSE i \in hits : \A j \in hits : j <= i].msg

\* parse_log_for_progress(log_file): the text of the last line of
\* lines[-10:] that is tagged and has three parts; None when open or
\* readlines raises
parse_log_for_progress(log) ==
    IF ~log.readable THEN None
    ELSE LET lines == log.lines
             first == IF Len(lines) > 10 THEN Len(lines) - 9 ELSE 1
             hits == { i \in first..Len(lines) : lines[i].tagged /\ lines[i].msg # None }
         IN  IF hits = {} THEN None
             ELSE lines[CHOOSE i \in hits : \A j \in hits : j <= i].msg

\* mutant: the last checkpoint is yielded as a completion event
Checkpoint_CompleteAtLast(stage, log) ==
    [progress |-> stages[stage + 1].progress,
     message |-> stages[stage + 1].message,
     stage |-> "Stage " \o ToString(stage + 1) \o "/" \o ToString(Len(stages)),
     complete |-> stage + 1 = Len(stages)]

\* the event yielded in the loop for stages[current_stage] (the timestamp is
\* left out)
Checkpoint(stage, log) ==
    LET detailed_message == IF log.configured /\ log.exists
                            THEN parse_log_for_progress(log) ELSE None
    IN  [progress |-> stages[stage + 1].progress,
         message |-> IF detailed_message # None /\ detailed_message[1] # ""
                     THEN detailed_message[1] ELSE stages[stage + 1].message,
         stage |-> "Stage " \o ToString(stage + 1) \o "/" \o ToString(Len(stages)),
         complete |-> FALSE]

\* mutant: the terminal event is the success event whatever the return code
TerminalEvent_AlwaysSuccess(return_code) ==
    [progress |-> 100, message |-> "Analysis completed successfully!",
     stage |-> "Complete", complete |-> TRUE, success |-> TRUE]

\* the event yielded after the loop
TerminalEvent(return_code) ==
    IF return_code = 0
    THEN [progress |-> 100, message |-> "Analysis completed successfully!",
          stage |-> "Complete", complete |-> TRUE, success |-> TRUE]
    ELSE [progress |-> 0,
          message |-> "Analysis failed with code " \o ToString(return_code),
          stage |-> "Error", complete |-> TRUE, success |-> FALSE,
          error_code |-> return_code]

MonitorInit ==
    /\ mProc = [state |-> "running"]
    /\ mLog \in MonitorLogs
    /\ mPc = "loop"
    /\ current_stage = 0
    /\ events = <<>>
    /\ ticks = 0

\* the child process exits
ProcessExits ==
    /\ mProc.state = "running"
    /\ \E code \in 0..MaxExit : mProc' = [state |-> "exited", returncode |-> code]
    /\ UNCHANGED <<mLog, mPc, current_stage, events, ticks>>
    /\ UNCHANGED nonMonitorVars

\* mutant: a checkpoint is yielded and the next one is skipped
PollRunningYields_SkipsStage ==
    /\ mPc = "loop"
    /\ mProc.state = "running"
    /\ current_stage < Len(stages)
    /\ ticks < MaxTicks
    /\ events' = Append(events, Checkpoint(current_stage, mLog))
    /\ current_stage' = IF current_stage + 2 <= Len(stages)
                        THEN current_stage + 2 ELSE Len(stages)
    /\ ticks' = ticks + 1
    /\ UNCHANGED <<mProc, mLog, mPc>>
    /\ UNCHANGED nonMonitorVars

\* process.poll() is None and a checkpoint is left: it is yielded, then sleep
PollRunningYields ==
    /\ mPc = "loop"
    /\ mProc.state = "running"
    /\ current_stage < Len(stages)
    /\ ticks < MaxTicks
    /\ events' = Append(events, Checkpoint(current_stage, mLog))
    /\ current_stage' = current_stage + 1
    /\ ticks' = ticks + 1
    /\ UNCHANGED <<mProc, mLog, mPc>>
    /\ UNCHANGED nonMonitorVars

\* process.poll() is None and no checkpoint is left: sleep only
PollRunningSleeps ==
    /\ mPc = "loop"
    /\ mProc.state = "running"
    /\ current_stage >= Len(stages)
    /\ ticks < MaxTicks
    /\ ticks' = ticks + 1
    /\ UNCHANGED <<mProc, mLog, mPc, current_stage, events>>
    /\ UNCHANGED nonMonitorVars

\* process.poll() is not None: the terminal event is yielded, the generator ends
PollExited ==
    /\ mPc = "loop"
    /\ mProc.state = "exited"
    /\ events' = Append(events, TerminalEvent(mProc.returncode))
    /\ mPc' = "done"
    /\ UNCHANGED <<mProc, mLog, current_stage, ticks>>
    /\ UNCHANGED nonMonitorVars

MonitorIdle ==
    /\ mProc = [state |-> "none"]
    /\ mLog = NoLog
    /\ mPc = "idle"
    /\ current_stage = 0
    /\ events = <<>>
    /\ ticks = 0

\* ------------------------------------------- extract_chromosome_summary
\* rows of a segments table: chromosome and copy number (tenths)
SegmentRows == [chrom : {"chr1", "chr2"}, copyNumber : {11, 17, 23, 29}]
\* segments tables with or without the columns chrom and copyNumber
SegmentTables ==
    { [has_chrom |-> hc, has_cn |-> hn,
       rows |-> [i \in 1..Len(rs) |->
                   [chrom |-> IF hc THEN rs[i].chrom ELSE NoCell,
                    copyNumber |-> IF hn THEN rs[i].copyNumber ELSE 0]]] :
        rs \in UNION { [1..n -> SegmentRows] : n \in 0..MaxSegments },
        hc \in BOOLEAN, hn \in BOOLEAN }

\* cna_segments[cna_segments['chrom'] == chrom]
ChromData(cna_segments, chrom) == SelectSeq(cna_segments.rows, LAMBDA r : r.chrom = chrom)
\* chrom_data['copyNumber'].mean(), as the sum and the count
MeanCopyNumber(chrom_data) ==
    Fraction(SumSeq([i \in 1..Len(chrom_data) |-> chrom_data[i].copyNumber]), Len(chrom_data))

\* mutant: the thresholds are inclusive
ChromStatus_Inclusive(mean_cn) ==
    IF mean_cn.num >= 23 * mean_cn.den THEN "Amplified"
    ELSE IF mean_cn.num <= 17 * mean_cn.den THEN "Deleted"
    ELSE "Normal"

\* mean_cn > 2.3, mean_cn < 1.7, else; mean_cn in tenths
ChromStatus(mean_cn) ==
    IF mean_cn.num > 23 * mean_cn.den THEN "Amplified"
    ELSE IF mean_cn.num < 17 * mean_cn.den THEN "Deleted"
    ELSE "Normal"

\* extract_chromosome_summary(cna_segments)
extract_chromosome_summary(cna_segments) ==
    IF ~cna_segments.has_chrom THEN EmptyDict
    ELSE IF ~cna_segments.has_cn THEN EmptyDict
    ELSE [chrom \in { cna_segments.rows[i].chrom : i \in DOMAIN cna_segments.rows } |->
            LET chrom_data == ChromData(cna_segments, chrom)
            IN  [mean_copy_number |-> MeanCopyNumber(chrom_data),
                 status |-> ChromStatus(MeanCopyNumber(chrom_data)),
                 n_segments |-> Len(chrom_data)]]

ChromInit ==
    /\ hIn \in SegmentTables
    /\ hOut = NotApplied

ExtractChromosomeSummary ==
    /\ hOut = NotApplied
    /\ hOut' = [fn |-> "extract_chromosome_summary",
                value |-> extract_chromosome_summary(hIn)]
    /\ UNCHANGED hIn
    /\ UNCHANGED nonChromVars

ChromIdle ==
    /\ hIn = [has_chrom |-> FALSE, has_cn |-> FALSE, rows |-> <<>>]
    /\ hOut = NotApplied

\* ------------------------------------------------ save_config, load_config
\* None as a configuration value
NoneV == [none |-> TRUE]

\* get_default_config(); floats in hundredths
get_default_config ==
    ("input" :> ("file" :> StrV("") @@ "separator" :> StrV("tab")
                 @@ "header" :> BoolV(TRUE) @@ "row_names" :> BoolV(TRUE)))
    @@ ("output" :> ("directory" :> StrV("backend/results")
                     @@ "sample_name" :> StrV("sample") @@ "timestamp" :> BoolV(TRUE)))
    @@ ("copykat" :> ("genome" :> StrV("hg20") @@ "cell_line" :> StrV("no")
                      @@ "ngene_chr" :> IntV(5) @@ "LOW_DR" :> FloatV(5)
                      @@ "UP_DR" :> FloatV(10) @@ "win_size" :> IntV(25)
                      @@ "KS_cut" :> FloatV(10) @@ "distance" :> StrV("euclidean")
                      @@ "n_cores" :> IntV(4) @@ "plot_genes" :> BoolV(TRUE)))
    @@ ("quality_control" :> ("auto_filter" :> BoolV(FALSE)
                              @@ "min_genes_per_cell" :> IntV(200)
                              @@ "min_umi_per_cell" :> IntV(500)
                              @@ "max_mt_percent" :> IntV(20)
                              @@ "min_cells_per_gene" :> IntV(3)))
    @@ ("preprocessing" :> ("detect_log_transform" :> BoolV(TRUE)
                            @@ "convert_to_counts" :> BoolV(TRUE)
                            @@ "log_base" :> IntV(2)))

\* the implicit resolver of the YAML loader and dumper: the type a plain
\* scalar is read as
YamlBoolTrue == {"yes", "Yes", "YES", "true", "True", "TRUE", "on", "On", "ON"}
YamlBoolFalse == {"no", "No", "NO", "false", "False", "FALSE", "off", "Off", "OFF"}
YamlNull == {"", "~", "null", "Null", "NULL"}
YamlInts == { [text |-> ToString(n), int |-> n] : n \in 0..MaxConfigInt }
YamlFloats ==
    { [text |-> ToString(w) \o "." \o ToString(a), float |-> 100 * w + 10 * a] :
        w \in 0..MaxWhole, a \in 0..9 }
    \cup { [text |-> ToString(w) \o "." \o ToString(a) \o ToString(b),
            float |-> 100 * w + 10 * a + b] :
            w \in 0..MaxWhole, a \in 0..9, b \in 0..9 }
Resolve(text) ==
    IF text \in YamlBoolTrue \cup YamlBoolFalse THEN "bool"
    ELSE IF text \in YamlNull THEN "null"
    ELSE IF \E e \in YamlInts : e.text = text THEN "int"
    ELSE IF \E e \in YamlFloats : e.text = text THEN "float"
    ELSE "str"

\* mutant: strings are always written as plain scalars
Represent_PlainStrings(value) ==
    IF "str" \in DOMAIN value THEN [style |-> "plain", text |-> value.str]
    ELSE IF "none" \in DOMAIN value THEN [style |-> "plain", text |-> "null"]
    ELSE IF "bool" \in DOMAIN value
    THEN [style |-> "plain", text |-> IF value.bool THEN "true" ELSE "false"]
    ELSE [style |-> "plain", text |-> PyStr(value)]

\* the scalar node yaml.safe_dump writes for a value: a string that a plain
\* scalar would not read back as a string is quoted
Represent(value) ==
    IF "str" \in DOMAIN value
    THEN [style |-> IF Resolve(value.str) = "str" THEN "plain" ELSE "single",
          text |-> value.str]
    ELSE IF "none" \in DOMAIN value THEN [style |-> "plain", text |-> "null"]
    ELSE IF "bool" \in DOMAIN value
    THEN [style |-> "plain", text |-> IF value.bool THEN "true" ELSE "false"]
    ELSE [style |-> "plain", text |-> PyStr(value)]

\* the value yaml.safe_load constructs from a scalar node
Construct(node) ==
    IF node.style = "single" THEN StrV(node.text)
    ELSE IF Resolve(node.text) = "bool" THEN BoolV(node.text \in YamlBoolTrue)
    ELSE IF Resolve(node.text) = "null" THEN NoneV
    ELSE IF Resolve(node.text) = "int"
    THEN IntV((CHOOSE e \in YamlInts : e.text = node.text).int)
    ELSE IF Resolve(node.text) = "float"
    THEN FloatV((CHOOSE e \in YamlFloats : e.text = node.text).float)
    ELSE StrV(node.text)

\* yaml.safe_dump(config, f, default_flow_style=False, sort_keys=False)
safe_dump(config) ==
    [section \in DOMAIN config |->
        [key \in DOMAIN config[section] |-> Represent(config[section][key])]]
\* yaml.safe_load(f)
safe_load(document) ==
    [section \in DOMAIN document |->
        [key \in DOMAIN document[section] |-> Construct(document[section][key])]]

\* the configuration file: absent, not YAML, or a YAML document
NoFile == [kind |-> "none"]
MalformedFile == [kind |-> "malformed"]
\* save_config(config, output_file)
save_config(config) == [kind |-> "yaml", document |-> safe_dump(config)]
\* load_config(config_file)
load_config(file) ==
    IF file.kind = "none" THEN Raised(<<"Configuration file not found: ", "config.yaml">>)
    ELSE IF file.kind = "malformed"
    THEN Raised(<<"Error parsing YAML configuration: ", "YAMLError">>)
    ELSE [raised |-> FALSE, config |-> safe_load(file.document)]

\* the configuration as validate_config reads it: the bare values
BareValue(value) ==
    IF "str" \in DOMAIN value THEN value.str
    ELSE IF "int" \in DOMAIN value THEN value.int
    ELSE IF "float" \in DOMAIN value THEN value.float
    ELSE IF "bool" \in DOMAIN value THEN value.bool
    ELSE None
BareConfig(config) ==
    [section \in DOMAIN config |->
        [key \in DOMAIN config[section] |-> BareValue(config[section][key])]]

\* configurations: the defaults with fields overridden, with or without
\* the optional sections, with or without the copykat section
RoundTripConfigs ==
    { LET full == [get_default_config EXCEPT
                     !["input"]["file"] = StrV(f),
                     !["input"]["header"] = BoolV(h),
                     !["output"]["sample_name"] = StrV(sn),
                     !["copykat"]["cell_line"] = StrV(cl),
                     !["copykat"]["ngene_chr"] = ng,
                     !["copykat"]["LOW_DR"] = FloatV(low),
                     !["copykat"]["UP_DR"] = FloatV(up)]
      IN  [section \in secs |-> full[section]] :
        f \in {"", "m.txt"}, h \in BOOLEAN,
        sn \in {"sample", "no", "12", "0.5", "null", "True"},
        cl \in {"no", "yes"}, ng \in {IntV(5), NoneV},
        low \in {5, 10}, up \in {10, 60},
        secs \in {DOMAIN get_default_config, {"input", "output", "copykat"},
                  {"input", "output"}} }

ConfigInit ==
    /\ cIn \in RoundTripConfigs \cup {get_default_config}
    /\ cFile \in {NoFile, MalformedFile}
    /\ cOut = NotApplied

SaveConfig ==
    /\ cOut = NotApplied
    /\ cFile.kind # "yaml"
    /\ cFile' = save_config(cIn)
    /\ UNCHANGED <<cIn, cOut>>
    /\ UNCHANGED nonConfigVars

LoadConfig ==
    /\ cOut = NotApplied
    /\ cOut' = [fn |-> "load_config", value |-> load_config(cFile)]
    /\ UNCHANGED <<cIn, cFile>>
    /\ UNCHANGED nonConfigVars

ConfigIdle ==
    /\ cIn = get_default_config
    /\ cFile = NoFile
    /\ cOut = NotApplied

\* ------------------------------------ two calls sharing one output_dir
RunIds == {1, 2}
TwoBase == "backend/results"
\* a sample name and one that extends it after an underscore
TwoSamples == {"A", "A_B"}

\* the directory the engine of call c writes for its sample at time t: a
\* predictions file whose table tells the two engines apart
EngineEntry(c, sample_name, t) ==
    [mtime |-> t, owner |-> c, sample |-> sample_name,
     files |-> {FileName("predictions", sample_name)},
     table |-> [ok |-> TRUE, has_pred |-> TRUE,
                rows |-> IF c = 1 THEN <<"aneuploid">> ELSE <<"diploid", "diploid">>]]

\* the entry of the shared directory a returned path names
EntryAt(path) == CHOOSE n \in DOMAIN tFs.entries : PathJoin(TwoBase, n) = path

\* mutant: the oldest matching directory is resolved
Outcome_Oldest(dir, sample_name, now) ==
    LET matching_dirs == GlobMatches(dir, sample_name)
    IN  IF matching_dirs = {} THEN {FailureRecord(OutputNotFoundMessage, 0)}
        ELSE { SuccessRecord(<<PathJoin(TwoBase, n)>>,
                             locate_output_files(dir, TwoBase, PathJoin(TwoBase, n), sample_name),
                             extract_summary_statistics(dir, TwoBase,
                                 locate_output_files(dir, TwoBase, PathJoin(TwoBase, n), sample_name)),
                             0, now) :
                 n \in { m \in matching_dirs :
                           \A o \in matching_dirs :
                               dir.entries[m].mtime <= dir.entries[o].mtime } }

\* run_copykat_analysis after subprocess.run returned: the records it may
\* return (runtime_minutes is left at 0)
Outcome(dir, sample_name, now) ==
    { IF d = None THEN FailureRecord(OutputNotFoundMessage, 0)
      ELSE SuccessRecord(d, locate_output_files(dir, TwoBase, d[1], sample_name),
                         extract_summary_statistics(dir, TwoBase,
                             locate_output_files(dir, TwoBase, d[1], sample_name)),
                         0, now) :
        d \in find_output_directory(dir, TwoBase, sample_name) }

TwoInit ==
    /\ tCalls \in [RunIds -> { [sample_name |-> n, pc |-> "launch", proc |-> "none",
                                 wrote |-> None, returncode |-> None,
                                 result |-> None] :
                                n \in TwoSamples }]
    /\ tFs \in { [base_exists |-> TRUE, entries |-> NoEntries],
                  [base_exists |-> TRUE,
                   entries |-> [n \in {"A_t0"} |-> EngineEntry(0, "A", 0)]] }
    /\ tClock = 0

\* subprocess.run starts the engine of call c
TwoLaunch(c) ==
    /\ tCalls[c].pc = "launch"
    /\ tCalls' = [tCalls EXCEPT ![c].pc = "wait", ![c].proc = "running"]
    /\ UNCHANGED <<tFs, tClock>>
    /\ UNCHANGED nonTwoVars

\* the engine of call c writes its output directory
TwoEngineWrites(c) ==
    /\ tCalls[c].proc = "running"
    /\ tCalls[c].wrote = None
    /\ tClock' = tClock + 1
    /\ LET name == tCalls[c].sample_name \o "_t" \o ToString(tClock')
       IN  /\ tFs' = [tFs EXCEPT !.entries =
                        [n \in DOMAIN tFs.entries \cup {name} |->
                           IF n = name THEN EngineEntry(c, tCalls[c].sample_name, tClock')
                           ELSE tFs.entries[n]]]
           /\ tCalls' = [tCalls EXCEPT ![c].wrote = <<name>>]
    /\ UNCHANGED nonTwoVars

\* the engine of call c exits
TwoEngineExits(c) ==
    /\ tCalls[c].proc = "running"
    /\ \E code \in 0..1 :
         tCalls' = [tCalls EXCEPT ![c].proc = "exited", ![c].returncode = <<code>>]
    /\ UNCHANGED <<tFs, tClock>>
    /\ UNCHANGED nonTwoVars

\* subprocess.run raises CalledProcessError in call c
TwoRunRaises(c) ==
    /\ tCalls[c].pc = "wait"
    /\ tCalls[c].proc = "exited"
    /\ tCalls[c].returncode # <<0>>
    /\ tCalls' = [tCalls EXCEPT ![c].pc = "done",
                     ![c].result = FailureRecord(<<"R script failed: ", "">>, 0)]
    /\ UNCHANGED <<tFs, tClock>>
    /\ UNCHANGED nonTwoVars

\* subprocess.run returns in call c; the directory is looked up, its files
\* located and summarized, and the record returned
TwoResolves(c) ==
    /\ tCalls[c].pc = "wait"
    /\ tCalls[c].proc = "exited"
    /\ tCalls[c].returncode = <<0>>
    /\ \E r \in Outcome(tFs, tCalls[c].sample_name, tClock) :
         tCalls' = [tCalls EXCEPT ![c].pc = "done", ![c].result = r]
    /\ UNCHANGED <<tFs, tClock>>
    /\ UNCHANGED nonTwoVars

TwoIdle ==
    /\ tCalls = [c \in RunIds |-> [sample_name |-> "A", pc |-> "launch", proc |-> "none",
                                    wrote |-> None, returncode |-> None,
                                    result |-> None]]
    /\ tFs = [base_exists |-> TRUE, entries |-> NoEntries]
    /\ tClock = 0

\* --------------------------------------------------------- specifications
\* one call of run_copykat_analysis
Init == RunInit /\ BuildIdle /\ LocateIdle /\ SummaryIdle /\ ValidateIdle /\ MonitorIdle /\ ChromIdle /\ ConfigIdle /\ TwoIdle
Next == RunNext
Spec == Init /\ [][Next]_vars

\* a caller that calls build_r_command repeatedly
SpecBuildInit == BuildInit /\ RunIdle /\ LocateIdle /\ SummaryIdle /\ ValidateIdle /\ MonitorIdle /\ ChromIdle /\ ConfigIdle /\ TwoIdle
SpecBuildNext ==
    \/ BuildCall
    \/ CallerContinues
SpecBuild == SpecBuildInit /\ [][SpecBuildNext]_vars

\* the result locator applied once to a directory
SpecLocateInit == LocateInit /\ RunIdle /\ BuildIdle /\ SummaryIdle /\ ValidateIdle /\ MonitorIdle /\ ChromIdle /\ ConfigIdle /\ TwoIdle
SpecLocateNext ==
    \/ FindOutputDirectory
    \/ FindLatestResult
    \/ LocateOutputFiles
SpecLocate == SpecLocateInit /\ [][SpecLocateNext]_vars

\* a summarizer applied once to an output directory
SpecSummaryInit == SummaryInit /\ RunIdle /\ BuildIdle /\ LocateIdle /\ ValidateIdle /\ MonitorIdle /\ ChromIdle /\ ConfigIdle /\ TwoIdle
SpecSummaryNext ==
    \/ GenerateSummary
    \/ ExtractSummaryStatistics
    \/ ParseCopykatResults
SpecSummary == SpecSummaryInit /\ [][SpecSummaryNext]_vars

\* a validator applied once to a params dictionary
SpecValidateInit == ValidateInit /\ RunIdle /\ BuildIdle /\ LocateIdle /\ SummaryIdle /\ MonitorIdle /\ ChromIdle /\ ConfigIdle /\ TwoIdle
SpecValidateNext ==
    \/ ValidateParameters
    \/ ValidateSampleName
    \/ ValidateConfig
    \/ SubmitConfigurePage
SpecValidate == SpecValidateInit /\ [][SpecValidateNext]_vars

\* monitor_analysis_progress consumed by its caller while the child runs
SpecMonitorInit == MonitorInit /\ RunIdle /\ BuildIdle /\ LocateIdle /\ SummaryIdle /\ ValidateIdle /\ ChromIdle /\ ConfigIdle /\ TwoIdle
SpecMonitorNext ==
    \/ ProcessExits
    \/ PollRunningYields
    \/ PollRunningSleeps
    \/ PollExited
SpecMonitor == SpecMonitorInit /\ [][SpecMonitorNext]_vars
\* the caller keeps iterating: an exited process is polled
SpecMonitorFair == SpecMonitor /\ WF_vars(PollExited)

\* extract_chromosome_summary applied once to a segments table
SpecChromInit == ChromInit /\ RunIdle /\ BuildIdle /\ LocateIdle /\ SummaryIdle /\ ValidateIdle /\ MonitorIdle /\ ConfigIdle /\ TwoIdle
SpecChromNext == ExtractChromosomeSummary
SpecChrom == SpecChromInit /\ [][SpecChromNext]_vars

\* a configuration saved to a file and the file loaded
SpecConfigInit == ConfigInit /\ RunIdle /\ BuildIdle /\ LocateIdle /\ SummaryIdle /\ ValidateIdle /\ MonitorIdle /\ ChromIdle /\ TwoIdle
SpecConfigNext ==
    \/ SaveConfig
    \/ LoadConfig
SpecConfig == SpecConfigInit /\ [][SpecConfigNext]_vars

\* two calls of run_copykat_analysis, one after the other or interleaved
SpecTwoInit == TwoInit /\ RunIdle /\ BuildIdle /\ LocateIdle /\ SummaryIdle /\ ValidateIdle /\ MonitorIdle /\ ChromIdle /\ ConfigIdle
SpecTwoNext ==
    \/ \E c \in RunIds : TwoLaunch(c)
    \/ \E c \in RunIds : TwoEngineWrites(c)
    \/ \E c \in RunIds : TwoEngineExits(c)
    \/ \E c \in RunIds : TwoRunRaises(c)
    \/ \E c \in RunIds : TwoResolves(c)
SpecTwo == SpecTwoInit /\ [][SpecTwoNext]_vars

\* ================================================================ claims
Range(seq) == { seq[i] : i \in DOMAIN seq }
\* the message has s as one of its fragments
Contains(msg, s) == \E i \in DOMAIN msg : msg[i] = s
\* the category a message opens with
ErrorKind(msg) == msg[1]

Returned == pc = "done"
SampleName == params["sample_name"].str
EngineExitedWith(codes) == proc.state = "exited" /\ proc.returncode \in codes
NoDirectoryForSample == ~fs.base_exists \/ GlobMatches(fs, SampleName) = {}

\* C1: every record returned by run_copykat_analysis, on every path, has
\* success = true only with a non-null output_dir and a null error, and
\* success = false only with a non-null error and a null output_dir.
C1_ResultRecordInvariant ==
    Returned =>
        /\ result.success => (result.output_dir # None /\ result.error = None)
        /\ ~result.success => (result.error # None /\ result.output_dir = None)

\* C1 witness: a call has returned a success record after the engine ran.
C1_Witness == Returned /\ result.success /\ calls.summarize = 1

\* C2 (as claimed): after the engine ran and exited with a non-zero code the
\* record has success = false, output_dir = null and an error that contains
\* both the exit code and the captured stderr.
C2_NonZeroExitReportsCodeAndStderr ==
    (Returned /\ EngineExitedWith(1..MaxExit)) =>
        /\ result.success = FALSE
        /\ result.output_dir = None
        /\ Contains(result.error, proc.stderr)
        /\ Contains(result.error, ToString(proc.returncode))

\* C3 (as claimed): when the engine cannot be started the call reports a
\* failure whose kind differs from the kind of an execution failure and from
\* the kind of any other error, and it does not wait, look up or summarize.
C3_LaunchFailureIsItsOwnKind ==
    (Returned /\ calls.popen = 1 /\ proc.state = "none") =>
        /\ result.success = FALSE
        /\ ErrorKind(result.error) # ErrorKind(ScriptFailedMessage([stderr |-> ""]))
        /\ ErrorKind(result.error) # ErrorKind(UnexpectedErrorMessage(StatError("")))
        /\ ErrorKind(result.error) # ErrorKind(OutputNotFoundMessage)
        /\ calls.wait = 0 /\ calls.find = 0 /\ calls.locate = 0 /\ calls.summarize = 0

\* C4: when the engine exits with code zero and no output directory of the
\* sample exists, the call returns a failure record with the
\* output-not-found error; files and summary are not computed.
C4_OutputNotFoundIsFailure ==
    (Returned /\ EngineExitedWith({0}) /\ NoDirectoryForSample) =>
        /\ result.success = FALSE
        /\ result.error = OutputNotFoundMessage
        /\ result.output_dir = None
        /\ result.files = EmptyDict /\ result.summary = EmptyDict
        /\ calls.find = 1 /\ calls.locate = 0 /\ calls.summarize = 0

\* C4 witness: the engine exited with zero, left no directory, the call returned.
C4_Witness == Returned /\ EngineExitedWith({0}) /\ NoDirectoryForSample

\* the rules of the validation table that params violates, by field, and
\* the required keys it lacks
InRange(p, key, tag, lo, hi) == key \in DOMAIN p => (lo <= p[key][tag] /\ p[key][tag] <= hi)
Violations(p) ==
    (RequiredKeys \ DOMAIN p)
    \cup { k \in {"genome"} \cap DOMAIN p : p[k].str \notin {"hg20", "mm10"} }
    \cup { k \in {"n_cores"} : ~InRange(p, k, "int", 1, 64) }
    \cup { k \in {"win_size"} : ~InRange(p, k, "int", 10, 200) }
    \cup { k \in {"low_dr", "up_dr"} : ~InRange(p, k, "float", 1, 50) }
    \cup { k \in {"up_dr"} : {"low_dr", "up_dr"} \subseteq DOMAIN p
                              /\ p["up_dr"].float < p["low_dr"].float }

\* C5 (as claimed): for params that violate a validation rule or lack a
\* required key the engine is never started, and the call returns a failure
\* record whose error lists every violation.
C5_ValidationPrecedesExecution ==
    (pc # "idle" /\ Violations(params) # {}) =>
        /\ calls.popen = 0
        /\ Returned => /\ result.success = FALSE
                       /\ \A v \in Violations(params) : Contains(result.error, v)

\* C6: in one call the engine is launched at most once, also after a
\* non-zero exit or an error, and the call delivers exactly one record: none
\* before it returns, one when it has returned, and it never stops short of
\* returning once the engine has exited or failed to start.
C6_OneLaunchOneOutcome ==
    /\ calls.popen <= 1
    /\ calls.returns = (IF Returned THEN 1 ELSE 0)
    /\ (pc \notin {"idle", "done"} /\ proc.state # "running") => ENABLED Next

\* C6 witness: the engine exited non-zero and the call returned after one launch.
C6_Witness == Returned /\ EngineExitedWith(1..MaxExit) /\ calls.popen = 1

\* the optional flags in the order of the command line contract
OptionalFlagOrder ==
    <<"--ngene_chr", "--win_size", "--cores", "--low_dr", "--up_dr", "--ks_cut",
      "--distance", "--cell_line">>
FlagIndex(flag) == CHOOSE i \in DOMAIN OptionalFlagOrder : OptionalFlagOrder[i] = flag
\* the number of elements of the required part of a command
RequiredLen == 10
\* the positions of the flags after the required part
FlagPositions(cmd) == { j \in RequiredLen + 1 .. Len(cmd) : (j - RequiredLen) % 2 = 1 }

\* C7: the command starts with Rscript and the script path, then --input,
\* --output, --name, --genome with their values in that order, and the
\* optional flags follow in the fixed order of the contract.
C7_ArgumentOrder ==
    \A i \in DOMAIN bCalls :
        LET c == bCalls[i].command
            p == bCalls[i].params
        IN  /\ Len(c) >= RequiredLen
            /\ SubSeq(c, 1, RequiredLen) =
                 <<"Rscript", bCalls[i].script,
                   "--input", p["input_file"].str, "--output", p["output_dir"].str,
                   "--name", p["sample_name"].str, "--genome", p["genome"].str>>
            /\ (Len(c) - RequiredLen) % 2 = 0
            /\ \A j \in FlagPositions(c) : c[j] \in Range(OptionalFlagOrder)
            /\ \A j, k \in FlagPositions(c) :
                 j < k => FlagIndex(c[j]) < FlagIndex(c[k])

\* C7 witness: a command was built from params with every key the builder reads.
C7_Witness ==
    \E i \in DOMAIN bCalls :
        /\ BuilderOptionalKeys \subseteq DOMAIN bCalls[i].params
        /\ Len(bCalls[i].command) > RequiredLen

\* the optional fields of the ParameterSet, named as the Configure page
\* stores them, and the flag of each
OptionalFields ==
    {"ngene_chr", "low_dr", "up_dr", "win_size", "ks_cut", "distance", "n_cores",
     "cell_line", "plot_genes"}
FlagOf(field) == IF field = "n_cores" THEN "--cores" ELSE "--" \o field
\* the keys under which a field may be given
Spellings(field) ==
    CASE field = "low_dr" -> {"low_dr", "LOW_DR"}
      [] field = "up_dr" -> {"up_dr", "UP_DR"}
      [] field = "ks_cut" -> {"ks_cut", "KS_cut"}
      [] OTHER -> {field}
FieldPresent(p, field) == Spellings(field) \cap DOMAIN p # {}

\* C8 (as claimed): every optional field present in params, under the key
\* the Configure page stores it with, has its flag in the command, followed
\* by the field's value.
C8_EveryPresentFieldEmitted ==
    \A i \in DOMAIN bCalls :
        LET c == bCalls[i].command
            p == bCalls[i].params
        IN  \A f \in OptionalFields \cap DOMAIN p :
                \E j \in 1 .. Len(c) - 1 : c[j] = FlagOf(f) /\ c[j + 1] = PyStr(p[f])

\* C9: no flag is emitted for an optional field that params lacks, and the
\* optional part holds nothing but one flag and one value per present field.
C9_AbsentFieldsNotEmitted ==
    \A i \in DOMAIN bCalls :
        LET c == bCalls[i].command
            p == bCalls[i].params
        IN  /\ \A f \in OptionalFields : ~FieldPresent(p, f) => FlagOf(f) \notin Range(c)
            /\ { c[j] : j \in FlagPositions(c) } \subseteq
                 { FlagOf(f) : f \in { g \in OptionalFields : FieldPresent(p, g) } }
            /\ Len(c) <= RequiredLen
                 + 2 * Cardinality({ f \in OptionalFields : FieldPresent(p, f) })

\* C9 witness: a command was built from params that lack some optional
\* fields and have others.
C9_Witness ==
    \E i \in DOMAIN bCalls :
        /\ \E f \in OptionalFields : ~FieldPresent(bCalls[i].params, f)
        /\ \E f \in OptionalFields : FieldPresent(bCalls[i].params, f)

NameOrder == <<"s1", "s1_t0", "s1_t1", "s1x_t0">>
NameRank(n) == CHOOSE i \in DOMAIN NameOrder : NameOrder[i] = n

\* C11: find_output_directory and find_latest_result return absent iff the
\* base does not exist or no entry name starts with sample + "_"; otherwise
\* they return the matching entry of most recent modification time and,
\* among several of that time, the one of lexicographically greatest name.
C11_LatestMatchingDirectory ==
    lOut.fn \in {"find_output_directory", "find_latest_result"} =>
        LET entries == lIn.dir.entries
            matching == GlobMatches(lIn.dir, lIn.sample_name)
        IN  IF ~lIn.dir.base_exists \/ matching = {}
            THEN lOut.value = None
            ELSE \E n \in matching :
                    /\ lOut.value = <<PathJoin(lIn.base_dir, n)>>
                    /\ \A o \in matching :
                          \/ entries[o].mtime < entries[n].mtime
                          \/ /\ entries[o].mtime = entries[n].mtime
                             /\ NameRank(o) <= NameRank(n)

\* C12: locate_output_files returns a mapping whose keys are exactly the
\* kinds whose conventionally named file exists under the directory, each
\* mapped to the path of that file; a missing file gives no key.
C12_LocatedFilesAreExistingFiles ==
    lOut.fn = "locate_output_files" =>
        \A n \in LocateNames :
            lOut.path = PathJoin(lIn.base_dir, n) =>
                LET held == IF n \in DOMAIN lIn.dir.entries
                            THEN lIn.dir.entries[n].files ELSE {}
                IN  /\ DOMAIN lOut.value =
                         { k \in Kinds : FileName(k, lIn.sample_name) \in held }
                    /\ \A k \in DOMAIN lOut.value :
                         lOut.value[k] =
                             lOut.path \o "/" \o FileName(k, lIn.sample_name)

\* only the predictions and heatmap files exist: exactly those two keys
C12_Witness ==
    /\ lOut.fn = "locate_output_files"
    /\ lOut.path = PathJoin(lIn.base_dir, "s1_t1")
    /\ "s1_t1" \in DOMAIN lIn.dir.entries
    /\ lIn.dir.entries["s1_t1"].files \cap {FileName(k, "s1") : k \in Kinds}
         = {FileName("predictions", "s1"), FileName("heatmap", "s1")}
    /\ DOMAIN lOut.value = {"predictions", "heatmap"}

\* the predictions file of the summarized directory exists / parses
PredictionsPresent == FileName("predictions", SummarySample) \in sIn.files
CnaPresent == FileName("cna_results", SummarySample) \in sIn.files
\* a summary of a parsed predictions table has been made
Summarized ==
    /\ sOut.fn \in {"generate_summary", "extract_summary_statistics"}
    /\ PredictionsPresent
    /\ sIn.table.ok
\* rows of the summarized table labelled exactly l
LabelCount(l) == Cardinality({ i \in DOMAIN sIn.table.rows : sIn.table.rows[i] = l })
\* the kinds whose file is in the summarized directory
PresentKinds == { k \in Kinds : FileName(k, SummarySample) \in sIn.files }
SummaryFields == {"n_cells", "n_aneuploid", "n_diploid", "n_not_defined", "aneuploid_fraction"}
AllZero(sm) ==
    /\ SummaryFields \subseteq DOMAIN sm
    /\ sm.n_cells = 0 /\ sm.n_aneuploid = 0 /\ sm.n_diploid = 0 /\ sm.n_not_defined = 0
    /\ sm.aneuploid_fraction.num = 0 /\ sm.aneuploid_fraction.den # 0

\* C13: the summary of a predictions table has n_cells equal to the number
\* of rows, the three counts equal to the numbers of rows labelled exactly
\* aneuploid, diploid and not.defined, and aneuploid_fraction equal to
\* n_aneuploid / n_cells when n_cells > 0 and to 0 for an empty table,
\* never dividing by zero.
C13_SummaryCounts ==
    Summarized =>
        LET v == sOut.value
            n == Len(sIn.table.rows)
        IN  /\ v.n_cells = n
            /\ v.n_aneuploid = LabelCount("aneuploid")
            /\ v.n_diploid = LabelCount("diploid")
            /\ v.n_not_defined = LabelCount("not.defined")
            /\ v.aneuploid_fraction.den # 0
            /\ IF n > 0
               THEN v.aneuploid_fraction.num * n
                        = LabelCount("aneuploid") * v.aneuploid_fraction.den
               ELSE v.aneuploid_fraction.num = 0

\* an empty table with the label column has been summarized
C13_Witness ==
    /\ Summarized
    /\ sOut.fn = "generate_summary"
    /\ sIn.table.has_pred
    /\ sIn.table.rows = <<>>
    /\ sOut.value.n_cells = 0

\* C14: every summary of generate_summary and extract_summary_statistics has
\* counts >= 0, n_aneuploid + n_diploid + n_not_defined <= n_cells and
\* 0 <= aneuploid_fraction <= 1.
C14_SummaryRanges ==
    sOut.fn \in {"generate_summary", "extract_summary_statistics"} =>
        LET v == sOut.value
        IN  /\ v.n_cells >= 0 /\ v.n_aneuploid >= 0
            /\ v.n_diploid >= 0 /\ v.n_not_defined >= 0
            /\ v.n_aneuploid + v.n_diploid + v.n_not_defined <= v.n_cells
            /\ v.aneuploid_fraction.den > 0
            /\ 0 <= v.aneuploid_fraction.num
            /\ v.aneuploid_fraction.num <= v.aneuploid_fraction.den

\* a table with a row of another label, not.defined rows and a fraction
\* strictly between 0 and 1 has been summarized by extract_summary_statistics
C14_Witness ==
    /\ sOut.fn = "extract_summary_statistics"
    /\ PredictionsPresent /\ sIn.table.ok /\ sIn.table.has_pred
    /\ sOut.value.n_not_defined > 0
    /\ sOut.value.n_aneuploid + sOut.value.n_diploid + sOut.value.n_not_defined
         < sOut.value.n_cells
    /\ 0 < sOut.value.aneuploid_fraction.num
    /\ sOut.value.aneuploid_fraction.num < sOut.value.aneuploid_fraction.den

\* C15: the summary of a predictions table carries mean_confidence iff the
\* table has a confidence column, and then it is the arithmetic mean of the
\* column over all rows; without the column the field is absent, not 0.
C15_MeanConfidenceIffColumn ==
    Summarized =>
        LET v == sOut.value
            n == Len(sIn.table.rows)
        IN  /\ "mean_confidence" \in DOMAIN v <=> sIn.table.has_conf
            /\ sIn.table.has_conf /\ n > 0 =>
                   v.mean_confidence.num * n
                       = SumSeq(sIn.table.conf) * v.mean_confidence.den

\* C16: with the predictions file missing, extract_summary_statistics and
\* parse_copykat_results yield an all-zero summary, not an error and not an
\* empty summary, and the other files are still returned.
C16_MissingPredictionsAllZero ==
    /\ sIn.exists /\ ~PredictionsPresent
    /\ CnaPresent => sIn.cna.ok
    =>
    /\ sOut.fn = "extract_summary_statistics" =>
          /\ AllZero(sOut.value)
          /\ DOMAIN sOut.files = PresentKinds
    /\ sOut.fn = "parse_copykat_results" =>
          /\ ~sOut.value.raised
          /\ AllZero(sOut.value.summary)
          /\ DOMAIN sOut.value.file_paths = PresentKinds

\* C17: a result file that exists and cannot be parsed is surfaced as a
\* parse error naming the file, never replaced by zeros, and the results
\* for the other files are still returned.
C17_ParseErrorSurfacedPerFile ==
    LET BadPredictions == PredictionsPresent /\ ~sIn.table.ok
        BadCna == CnaPresent /\ ~sIn.cna.ok
    IN  /\ sOut.fn = "extract_summary_statistics" /\ BadPredictions =>
              ~AllZero(sOut.value)
        /\ sOut.fn = "parse_copykat_results" /\ (BadPredictions \/ BadCna) =>
              /\ ~sOut.value.raised
              /\ DOMAIN sOut.value.file_paths = PresentKinds
              /\ ~BadPredictions /\ PredictionsPresent =>
                     sOut.value.predictions = <<sIn.table>>

\* the characters of the alphabet that are in [A-Za-z0-9_]
AsciiWordChars == {"a", "_"}
\* the sample_name rule of the rule table: non-empty, [A-Za-z0-9_]+, at
\* most 50 characters
NameOk(name) ==
    /\ Len(name) > 0
    /\ \A i \in DOMAIN name : name[i] \in AsciiWordChars
    /\ Len(name) <= 50
\* the rules of the rule table that the validated params violate
ViolatedRules ==
    (IF "sample_name" \notin DOMAIN vIn \/ ~NameOk(Get(vIn, "sample_name", <<>>))
     THEN {"sample_name"} ELSE {})
    \cup (IF "genome" \in DOMAIN vIn /\ vIn["genome"] \notin {"hg20", "mm10"}
          THEN {"genome"} ELSE {})
    \cup (IF "n_cores" \in DOMAIN vIn /\ vIn["n_cores"] \notin 1..64
          THEN {"n_cores"} ELSE {})
    \cup (IF "low_dr" \in DOMAIN vIn /\ vIn["low_dr"] \notin 1..50
          THEN {"low_dr"} ELSE {})
    \cup (IF "up_dr" \in DOMAIN vIn /\ vIn["up_dr"] \notin 1..50
          THEN {"up_dr"} ELSE {})
    \cup (IF {"low_dr", "up_dr"} \subseteq DOMAIN vIn /\ vIn["up_dr"] < vIn["low_dr"]
          THEN {"order"} ELSE {})
    \cup (IF "win_size" \in DOMAIN vIn /\ vIn["win_size"] \notin 10..200
          THEN {"win_size"} ELSE {})
MentionsLow(e) == Contains(e, "LOW.DR") \/ Contains(e, "LOW_DR")
MentionsUp(e) == Contains(e, "UP.DR") \/ Contains(e, "UP_DR")
\* the error e is the entry of the rule
EntryOf(e, rule) ==
    CASE rule = "sample_name" -> Contains(e, "Sample name")
      [] rule = "genome" -> Contains(e, "genome")
      [] rule = "n_cores" -> Contains(e, "n_cores")
      [] rule = "low_dr" -> MentionsLow(e) /\ ~MentionsUp(e)
      [] rule = "up_dr" -> MentionsUp(e) /\ ~MentionsLow(e)
      [] rule = "order" -> MentionsUp(e) /\ MentionsLow(e)
      [] rule = "win_size" -> Contains(e, "Window size")

\* C18: validate_parameters returns is_valid iff its error list is empty,
\* and the list has an entry for every violated rule of the rule table:
\* all violations are reported together.
C18_AllViolationsReported ==
    vOut.fn = "validate_parameters" =>
        /\ vOut.value.is_valid <=> vOut.value.errors = <<>>
        /\ \A rule \in ViolatedRules :
              \E i \in DOMAIN vOut.value.errors : EntryOf(vOut.value.errors[i], rule)

\* up_dr and low_dr are both given and up_dr < low_dr
UpBelowLow == {"low_dr", "up_dr"} \subseteq DOMAIN vIn /\ vIn["up_dr"] < vIn["low_dr"]

\* C19: with up_dr < low_dr validation fails with an error that mentions
\* both fields, whatever the other fields are: in validate_parameters, in
\* validate_config and on the Configure page.
C19_RateOrderAlwaysReported ==
    UpBelowLow =>
        /\ vOut.fn = "validate_parameters" =>
              /\ ~vOut.value.is_valid
              /\ \E i \in DOMAIN vOut.value.errors : EntryOf(vOut.value.errors[i], "order")
        /\ vOut.fn = "validate_config" /\ "copykat" \in DOMAIN vOut.config =>
              /\ ~vOut.value.is_valid
              /\ \E i \in DOMAIN vOut.value.errors : EntryOf(vOut.value.errors[i], "order")
        /\ vOut.fn = "configure" =>
              /\ ~vOut.value.stored
              /\ \E i \in DOMAIN vOut.value.shown : EntryOf(vOut.value.shown[i], "order")

\* up_dr < low_dr with low_dr out of range, no sample name and an invalid
\* genome has been validated
C19_Witness ==
    /\ vOut.fn = "validate_parameters"
    /\ UpBelowLow
    /\ vIn["low_dr"] > 50
    /\ "sample_name" \notin DOMAIN vIn
    /\ "genome" \in DOMAIN vIn /\ vIn["genome"] = "hg19"
    /\ Len(vOut.value.errors) >= 4

\* C20: a sample_name is accepted iff it is non-empty, has only characters
\* of [A-Za-z0-9_] and at most 50 of them, by validate_parameters, by
\* validate_sample_name and by the submit check of the Configure page.
C20_SampleNameRule ==
    "sample_name" \in DOMAIN vIn =>
        /\ vOut.fn = "validate_parameters" =>
              ((\A i \in DOMAIN vOut.value.errors :
                    ~EntryOf(vOut.value.errors[i], "sample_name"))
               <=> NameOk(vIn["sample_name"]))
        /\ vOut.fn = "validate_sample_name" =>
              (vOut.value.is_valid <=> NameOk(vIn["sample_name"]))
        /\ vOut.fn = "configure" =>
              ((\A i \in DOMAIN vOut.value.shown :
                    ~EntryOf(vOut.value.shown[i], "sample_name"))
               <=> NameOk(vIn["sample_name"]))

\* the ranges of PARAM_RANGES for the keys of the validated params (rates in
\* hundredths)
InParamRanges ==
    /\ "n_cores" \in DOMAIN vIn => vIn["n_cores"] \in 1..64
    /\ "low_dr" \in DOMAIN vIn => vIn["low_dr"] \in 1..30
    /\ "up_dr" \in DOMAIN vIn => vIn["up_dr"] \in 1..30
    /\ "win_size" \in DOMAIN vIn => vIn["win_size"] \in 10..150

\* C21: every params that validate_parameters accepts lies within the
\* ranges of the data model: low_dr and up_dr in [0.01, 0.30], win_size in
\* [10, 150], n_cores in [1, 64].
C21_AcceptedParamsInRanges ==
    vOut.fn = "validate_parameters" /\ vOut.value.is_valid => InParamRanges

\* the number of events yielded inside the loop
NonTerminalCount == IF mPc = "done" THEN Len(events) - 1 ELSE Len(events)
\* the progress values (hundredths), stage labels and canned labels of 4.6
CheckpointProgress == <<10, 20, 30, 40, 90, 100>>
CheckpointStage ==
    <<"Stage 1/6", "Stage 2/6", "Stage 3/6", "Stage 4/6", "Stage 5/6", "Stage 6/6">>
CannedLabel ==
    <<"Loading and validating data...", "Quality control assessment...",
      "Preprocessing data...", "Running CopyKAT analysis...",
      "Processing results...", "Complete!">>
\* at most six events before the terminal one, none of them complete, and
\* the generator has finished iff the last event is the one complete event
OneCompletionLast ==
    /\ Len(events) <= 7
    /\ mPc = "done" => Len(events) >= 1
    /\ \A i \in DOMAIN events :
          events[i].complete <=> (mPc = "done" /\ i = Len(events))

\* C22: for a process that exits, monitor_analysis_progress yields a finite
\* sequence of events in which exactly one event is complete, the last one;
\* every earlier event is not complete.
C22_OneCompletionEventLast ==
    /\ []OneCompletionLast
    /\ (mProc.state = "exited") ~> (mPc = "done")

\* the generator has finished after some checkpoints
C22_Witness ==
    /\ mPc = "done"
    /\ Len(events) > 2
    /\ events[Len(events)].complete
    /\ ~events[1].complete

\* C23: the terminal event reflects the exit status of the process, also
\* when it exits before all six checkpoints: success iff the exit code is 0;
\* a non-zero code is reported as a failure with that code and without the
\* 1.0 "complete" label; the process is left as it exited.
C23_TerminalEventIsTrueStatus ==
    mPc = "done" =>
        LET e == events[Len(events)]
        IN  /\ mProc.state = "exited"
            /\ e.complete
            /\ e.success <=> mProc.returncode = 0
            /\ mProc.returncode # 0 =>
                  /\ e.error_code = mProc.returncode
                  /\ e.progress # 100
                  /\ e.stage # "Complete"
                  /\ e.message \notin {"Complete!", "Analysis completed successfully!"}

\* the process failed after three checkpoints and the terminal event is out
C23_Witness ==
    /\ mPc = "done"
    /\ mProc.returncode # 0
    /\ Len(events) = 4
    /\ ~events[4].success

\* C28: while the process is alive one checkpoint is emitted per polling
\* tick, in the order 0.1, 0.2, 0.3, 0.4, 0.9, 1.0 with stage labels 1/6 to
\* 6/6; at most six, and after the sixth the loop polls without emitting.
C28_CheckpointPerTick ==
    /\ NonTerminalCount = (IF ticks < 6 THEN ticks ELSE 6)
    /\ \A i \in 1..NonTerminalCount :
          /\ events[i].progress = CheckpointProgress[i]
          /\ events[i].stage = CheckpointStage[i]
          /\ ~events[i].complete
          /\ i > 1 => events[i - 1].progress < events[i].progress

\* the loop has polled more than six times and the process is still alive
C28_Witness ==
    /\ mProc.state = "running"
    /\ ticks > 6
    /\ Len(events) = 6

\* the lines of lines[-10:] of the log that carry a tag
TaggedInWindow ==
    IF mLog.configured /\ mLog.exists /\ mLog.readable
    THEN { j \in (IF Len(mLog.lines) > 10 THEN Len(mLog.lines) - 9 ELSE 1)..Len(mLog.lines) :
             mLog.lines[j].tagged }
    ELSE {}
Latest(S) == CHOOSE j \in S : \A k \in S : k <= j
\* the log changes neither the progress values nor the number of events
LogLeavesProgressAlone ==
    /\ NonTerminalCount = (IF ticks < 6 THEN ticks ELSE 6)
    /\ \A i \in 1..NonTerminalCount : events[i].progress = CheckpointProgress[i]

C30_NoCompleteWhileRunning ==
    \A i \in DOMAIN events :
        events[i].progress = 100 \/ events[i].message = "Complete!" =>
            /\ events[i].complete
            /\ events[i].success
            /\ mProc.state = "exited"
            /\ mProc.returncode = 0

\* the rows of the segments table on chromosome c
RowsOn(c) == { i \in DOMAIN hIn.rows : hIn.rows[i].chrom = c }
RECURSIVE CopyNumberSum(_)
CopyNumberSum(S) ==
    IF S = {} THEN 0
    ELSE LET i == CHOOSE j \in S : TRUE
         IN  hIn.rows[i].copyNumber + CopyNumberSum(S \ {i})

\* C25: with the two columns present, the chromosome summary has exactly
\* one entry per distinct chromosome; its n_segments is the row count of
\* the chromosome and its status is Amplified iff the mean copy number is
\* above 2.3, Deleted iff it is below 1.7, Normal otherwise (2.3 and 1.7
\* themselves are Normal).
C25_ChromosomeClassification ==
    hOut.fn = "extract_chromosome_summary" /\ hIn.has_chrom /\ hIn.has_cn =>
        /\ DOMAIN hOut.value = { hIn.rows[i].chrom : i \in DOMAIN hIn.rows }
        /\ \A c \in DOMAIN hOut.value :
              LET n == Cardinality(RowsOn(c))
                  total == CopyNumberSum(RowsOn(c))
              IN  /\ hOut.value[c].n_segments = n
                  /\ hOut.value[c].status = "Amplified" <=> total > 23 * n
                  /\ hOut.value[c].status = "Deleted" <=> total < 17 * n
                  /\ hOut.value[c].status = "Normal" <=> (17 * n <= total /\ total <= 23 * n)

\* a chromosome of two rows with mean exactly 2.3 is Normal and the other
\* chromosome is Amplified
C25_Witness ==
    /\ hOut.fn = "extract_chromosome_summary"
    /\ DOMAIN hOut.value = {"chr1", "chr2"}
    /\ hOut.value["chr1"].n_segments = 2
    /\ hOut.value["chr1"].mean_copy_number = Fraction(46, 2)
    /\ hOut.value["chr1"].status = "Normal"
    /\ hOut.value["chr2"].status = "Amplified"

\* C24: a configuration accepted by validate_config, saved with
\* save_config and loaded with load_config from the written file, comes
\* back with the same sections, the same keys and the same values.
C24_SaveLoadRoundTrip ==
    /\ cOut.fn = "load_config"
    /\ cFile.kind = "yaml"
    /\ validate_config(BareConfig(cIn)).is_valid
    => /\ ~cOut.value.raised
       /\ DOMAIN cOut.value.config = DOMAIN cIn
       /\ \A section \in DOMAIN cIn :
             /\ DOMAIN cOut.value.config[section] = DOMAIN cIn[section]
             /\ \A key \in DOMAIN cIn[section] :
                   cOut.value.config[section][key] = cIn[section][key]

\* the default configuration with a sample name that reads as a boolean
\* and a missing ngene_chr has been saved and loaded
C24_Witness ==
    /\ cOut.fn = "load_config"
    /\ cFile.kind = "yaml"
    /\ validate_config(BareConfig(cIn)).is_valid
    /\ DOMAIN cIn = DOMAIN get_default_config
    /\ cIn["output"]["sample_name"] = StrV("True")
    /\ cIn["copykat"]["cell_line"] = StrV("no")
    /\ cIn["copykat"]["ngene_chr"] = NoneV
    /\ cFile.document["copykat"]["UP_DR"].text = "0.1"
    /\ ~cOut.value.raised

\* call c has returned a success record
Succeeded(c) == tCalls[c].pc = "done" /\ tCalls[c].result.success
\* the entry a successful call resolved to
Resolved(c) == tFs.entries[EntryAt(tCalls[c].result.output_dir[1])]

\* C26: when the two calls use different sample names, a successful call
\* resolves to a directory created for its own sample name, never to one
\* created for the other sample.
C26_DifferentSamplesStayApart ==
    tCalls[1].sample_name # tCalls[2].sample_name =>
        \A c \in RunIds :
            Succeeded(c) => Resolved(c).sample = tCalls[c].sample_name

\* C27: with the same sample name in both calls, a successful call may
\* return the directory of the other call's engine, and it does so only
\* when that directory is at least as recent as the one its own engine
\* wrote; the files and the summary it returns are those of the directory
\* it resolved to.
C27_SameNameResolvesToMostRecent ==
    tCalls[1].sample_name = tCalls[2].sample_name =>
        \A c \in RunIds :
            Succeeded(c) =>
                /\ Resolved(c).sample = tCalls[c].sample_name
                /\ tCalls[c].wrote # None =>
                      Resolved(c).mtime >= tFs.entries[tCalls[c].wrote[1]].mtime
                /\ tCalls[c].result.summary.n_cells = Len(Resolved(c).table.rows)

\* the race: call 1 wrote its own directory, reports success, and returns
\* the directory, the file and the summary of the engine of call 2
C27_Witness ==
    /\ tCalls[1].sample_name = tCalls[2].sample_name
    /\ Succeeded(1)
    /\ tCalls[1].wrote # None
    /\ Resolved(1).owner = 2
    /\ tCalls[1].result.output_dir # <<PathJoin(TwoBase, tCalls[1].wrote[1])>>
    /\ DOMAIN tCalls[1].result.files = {"predictions"}
    /\ tCalls[1].result.summary.n_cells = 2
    /\ tCalls[1].result.summary.n_aneuploid = 0

====
